---- MODULE Spec2Model ----
(***************************************************************************)
(* Cartridge memory-bank controller, memory bus, timer and cartridge       *)
(* header of the gbc emulator core, as a state machine.                    *)
(*                                                                         *)
(* A Rust panic (failed assert!, unwrap() on None, unreachable!(), index   *)
(* out of bounds) aborts the emulator: the operation in which it happens   *)
(* leaves the state as it was when the panic was raised, `panic` records   *)
(* its reason, and no further operation runs.                              *)
(***************************************************************************)
EXTENDS Integers, Sequences, FiniteSets, TLC

VARIABLES
    controller,   \* MemoryBus.controller : cartridge::Controller
    ppu,          \* MemoryBus.ppu        : ppu::Ppu (with its Vram)
    ram,          \* MemoryBus.ram        : memory::Ram (work RAM)
    io,           \* MemoryBus.io         : memory::Io (with its Timer)
    high_ram,     \* MemoryBus.high_ram
    int_enable,   \* MemoryBus.int_enable
    cycle,        \* absolute CPU cycle count handed to Timer::step
    header,       \* Cartridge.header, the 0x50 bytes read from the ROM image
    verified,     \* last result of Cartridge::verify_header_checksum
    panic,        \* "none", or the reason the emulator aborted
    overflow_checks, \* whether the build panics on integer overflow
    nops,         \* number of operations made that a bound limits
    div_written,  \* cycle of the last write to DIV (0xFF04), -1 before any
    stored,       \* the bytes written to enabled cartridge RAM, by data index
    last          \* the last operation applied: [op, addr, value]

vars ==
    <<controller, ppu, ram, io, high_ram, int_enable, cycle, header, verified,
      panic, overflow_checks, nops, div_written, stored, last>>

----------------------------------------------------------------------------
(* Bit operations on unsigned integers.                                    *)

RECURSIVE BitAnd(_, _)
BitAnd(a, b) ==
    IF a = 0 \/ b = 0 THEN 0
    ELSE (a % 2) * (b % 2) + 2 * BitAnd(a \div 2, b \div 2)

RECURSIVE BitOr(_, _)
BitOr(a, b) ==
    IF a = 0 THEN b
    ELSE IF b = 0 THEN a
    ELSE (IF a % 2 = 1 \/ b % 2 = 1 THEN 1 ELSE 0) + 2 * BitOr(a \div 2, b \div 2)

\* a << n in a w-bit unsigned integer
Shl(a, n, w) == (a * (2 ^ n)) % (2 ^ w)

\* `lo..=hi` range pattern
InRange(addr, lo, hi) == lo <= addr /\ addr <= hi

\* Result of an operation: the state it leaves and the panic it raised.
Ok(st) == [st |-> st, panic |-> "none"]
Panicked(st, why) == [st |-> st, panic |-> why]

\* The panics of the modelled code.
UnwrapNone == "unwrap on None"
Unreachable == "unreachable"
AssertBank == "assertion failed: bank < self.num_banks"
IndexOutOfBounds == "index out of bounds"

----------------------------------------------------------------------------
(* cartridge.rs: sizes                                                     *)

RamSizes == {"NotPresent", "_2K", "_8K", "_32K", "_64K", "_128K"}

\* `RamSize as u8`: the header byte of each variant, in declaration order
RamSize_as_u8(s) ==
    CASE s = "NotPresent" -> 0
      [] s = "_2K" -> 1
      [] s = "_8K" -> 2
      [] s = "_32K" -> 3
      [] s = "_128K" -> 4
      [] s = "_64K" -> 5

\* impl From<RamSize> for usize
RamSizeBytes(s) ==
    CASE s = "_2K" -> 2 * 1024
      [] s = "_8K" -> 8 * 1024
      [] s = "_32K" -> 32 * 1024
      [] s = "_64K" -> 64 * 1024
      [] s = "_128K" -> 128 * 1024
      [] s = "NotPresent" -> 0

RomSizes ==
    {"_32K", "_64K", "_128K", "_256K", "_512K", "_1M", "_1_1M", "_1_2M",
     "_1_5M", "_2M", "_4M", "_8M"}

\* `RomSize as u8`: the header byte of each variant
RomSize_as_u8(s) ==
    CASE s = "_32K" -> \h00
      [] s = "_64K" -> \h01
      [] s = "_128K" -> \h02
      [] s = "_256K" -> \h03
      [] s = "_512K" -> \h04
      [] s = "_1M" -> \h05
      [] s = "_2M" -> \h06
      [] s = "_4M" -> \h07
      [] s = "_8M" -> \h08
      [] s = "_1_1M" -> \h52
      [] s = "_1_2M" -> \h53
      [] s = "_1_5M" -> \h54

Rom_BANK_SIZE == 16 * 1024
Rom_BASE_ADDR == \h0000
Rom_LAST_ADDR == \h7FFF

\* impl From<RomSize> for usize
RomSizeBytes(s) ==
    CASE s = "_32K" -> 2 * Rom_BANK_SIZE
      [] s = "_64K" -> 4 * Rom_BANK_SIZE
      [] s = "_128K" -> 8 * Rom_BANK_SIZE
      [] s = "_256K" -> 16 * Rom_BANK_SIZE
      [] s = "_512K" -> 32 * Rom_BANK_SIZE
      [] s = "_1M" -> 64 * Rom_BANK_SIZE
      [] s = "_1_1M" -> 72 * Rom_BANK_SIZE
      [] s = "_1_2M" -> 80 * Rom_BANK_SIZE
      [] s = "_1_5M" -> 96 * Rom_BANK_SIZE
      [] s = "_2M" -> 128 * Rom_BANK_SIZE
      [] s = "_4M" -> 256 * Rom_BANK_SIZE
      [] s = "_8M" -> 512 * Rom_BANK_SIZE

----------------------------------------------------------------------------
(* cartridge.rs: CartridgeType                                             *)

CartridgeTypes ==
    {"Rom", "Mbc1", "Mbc1Ram", "Mbc1RamBattery", "Mbc2", "Mbc2Battery",
     "RomRam", "RomRamBattery", "Mmm01", "Mmm01Ram", "Mmm01RamBattery",
     "Mbc3TimerBattery", "Mbc3TimerRamBattery", "Mbc3", "Mbc3Ram",
     "Mbc3RamBattery", "Mbc4", "Mbc4Ram", "Mbc4RamBattery", "Mbc5", "Mbc5Ram",
     "Mbc5RamBattery", "Mbc5Rumble", "Mbc5RumbleRam", "Mbc5RumbleRamBattery",
     "PocketCamera", "BandaiTama5", "HuC3", "HuC1RamBattery"}

\* `CartridgeType as u8`: the header byte of each variant
CartridgeType_as_u8(t) ==
    CASE t = "Rom" -> \h00
      [] t = "Mbc1" -> \h01
      [] t = "Mbc1Ram" -> \h02
      [] t = "Mbc1RamBattery" -> \h03
      [] t = "Mbc2" -> \h05
      [] t = "Mbc2Battery" -> \h06
      [] t = "RomRam" -> \h08
      [] t = "RomRamBattery" -> \h09
      [] t = "Mmm01" -> \h0B
      [] t = "Mmm01Ram" -> \h0C
      [] t = "Mmm01RamBattery" -> \h0D
      [] t = "Mbc3TimerBattery" -> \h0F
      [] t = "Mbc3TimerRamBattery" -> \h10
      [] t = "Mbc3" -> \h11
      [] t = "Mbc3Ram" -> \h12
      [] t = "Mbc3RamBattery" -> \h13
      [] t = "Mbc4" -> \h15
      [] t = "Mbc4Ram" -> \h16
      [] t = "Mbc4RamBattery" -> \h17
      [] t = "Mbc5" -> \h19
      [] t = "Mbc5Ram" -> \h1A
      [] t = "Mbc5RamBattery" -> \h1B
      [] t = "Mbc5Rumble" -> \h1C
      [] t = "Mbc5RumbleRam" -> \h1D
      [] t = "Mbc5RumbleRamBattery" -> \h1E
      [] t = "PocketCamera" -> \hFC
      [] t = "BandaiTama5" -> \hFD
      [] t = "HuC3" -> \hFE
      [] t = "HuC1RamBattery" -> \hFF

is_none(t) == t \in {"Rom", "RomRam", "RomRamBattery"}
\* A decoder that takes the MBC5 cartridges for MBC1 ones as well.
is_mbc1_or_mbc5(t) ==
    t \in {"Mbc1", "Mbc1Ram", "Mbc1RamBattery", "Mbc5", "Mbc5Ram",
           "Mbc5RamBattery", "Mbc5Rumble", "Mbc5RumbleRam",
           "Mbc5RumbleRamBattery"}
is_mbc1(t) == t \in {"Mbc1", "Mbc1Ram", "Mbc1RamBattery"}
is_mbc2(t) == t \in {"Mbc2", "Mbc2Battery"}
is_mbc3(t) ==
    t \in {"Mbc3", "Mbc3Ram", "Mbc3RamBattery", "Mbc3TimerBattery",
           "Mbc3TimerRamBattery"}
is_mbc5(t) ==
    t \in {"Mbc5", "Mbc5Ram", "Mbc5RamBattery", "Mbc5Rumble", "Mbc5RumbleRam",
           "Mbc5RumbleRamBattery"}
is_battery_backed(t) ==
    t \in {"RomRamBattery", "Mbc1RamBattery", "Mbc3RamBattery",
           "Mbc3TimerRamBattery", "Mbc4RamBattery", "Mbc5RamBattery",
           "Mbc5RumbleRamBattery"}
is_rtc(t) == t \in {"Mbc3TimerBattery", "Mbc3TimerRamBattery"}

----------------------------------------------------------------------------
(* cartridge.rs: cartridge RAM                                             *)

Ram_BANK_SIZE == 8 * 1024
Ram_BASE_ADDR == \hA000
Ram_LAST_ADDR == \hBFFF

\* The addresses of 0xA000-0xBFFF the model stores bytes for: the first and
\* last byte of the window, and the last byte of a 2K RAM.
RamAddrs == {\hA000, \hA7FF, \hBFFF}

\* Ram::new, num_banks
Ram_num_banks(ram_size) ==
    IF ram_size = "_2K" THEN 1 ELSE RamSizeBytes(ram_size) \div Ram_BANK_SIZE

\* The indices of Ram.data the sampled addresses can reach.
RamCells(ram_size) ==
    {i \in {b * Ram_BANK_SIZE + (a - Ram_BASE_ADDR) :
                b \in 0..(Ram_num_banks(ram_size) - 1), a \in RamAddrs} :
        i < RamSizeBytes(ram_size)}

\* The offsets of the save file the model keeps bytes for, in a file of
\* `len` bytes: those of the cells of the largest RAM.
SaveCells(len) == {i \in RamCells("_128K") : i < len}

\* Ram.file when None; also the path <rom>.sav with no file at it.  A file
\* is its length, its bytes and whether the system now fails seeks and
\* writes on it (`failing`).
NoFile ==
    [some |-> FALSE, len |-> 0, data |-> [i \in {} |-> 0], failing |-> FALSE]

\* OpenOptions::new().read(true).write(true).create(true).open(save_path):
\* the file found at the path, or a new empty one.
File_open(save) ==
    IF save.some THEN save
    ELSE [some |-> TRUE, len |-> 0, data |-> [i \in {} |-> 0],
          failing |-> FALSE]

\* File::set_len: truncates, or extends with zeros; the bytes below both
\* lengths are kept.
File_set_len(f, len) ==
    [f EXCEPT !.len = len,
              !.data = [i \in SaveCells(len) |->
                            IF i < f.len THEN f.data[i] ELSE 0]]

\* save_file.write_all(&self.data) on the file just opened (offset 0)
File_write_all(f, data, len) ==
    LET n == IF f.len > len THEN f.len ELSE len
    IN [f EXCEPT !.len = n,
                 !.data = [i \in SaveCells(n) |->
                               IF i < len THEN data[i] ELSE f.data[i]]]

\* file.seek(SeekFrom::Start(index)); file.write(&[value])
File_write_at(f, index, value) ==
    LET n == IF f.len > index THEN f.len ELSE index + 1
    IN [f EXCEPT !.len = n,
                 !.data = [i \in SaveCells(n) |->
                               IF i = index THEN value
                               ELSE IF i < f.len THEN f.data[i] ELSE 0]]

\* Ram::new: None when ram_size is NotPresent, else zeroed data, bank 0 and
\* no file.  `some` is the Option's tag; an absent RAM keeps an empty store.
Ram_new(ram_size) ==
    IF ram_size = "NotPresent"
    THEN [some |-> FALSE, data |-> [i \in {} |-> 0], active_bank |-> 0,
          num_banks |-> 0, len |-> 0, file |-> NoFile]
    ELSE [some |-> TRUE, data |-> [i \in RamCells(ram_size) |-> 0],
          active_bank |-> 0, num_banks |-> Ram_num_banks(ram_size),
          len |-> RamSizeBytes(ram_size), file |-> NoFile]

\* Ram::enable_battery, `save` being what is found at <rom>.sav: the file is
\* opened (created when missing); with `overwrite` the RAM is written over
\* it, without it the RAM is read from it when the lengths are equal; the
\* file is then set to the RAM's length and kept as Ram.file.
Ram_enable_battery(r, save, overwrite) ==
    LET save_file == File_open(save)
        written == IF overwrite
                   THEN File_write_all(save_file, r.data, r.len)
                   ELSE save_file
        data == IF ~overwrite /\ save_file.len = r.len
                THEN [i \in DOMAIN r.data |-> save_file.data[i]]
                ELSE r.data
    IN [r EXCEPT !.data = data, !.file = File_set_len(written, r.len)]

\* Ram::set_bank
Ram_set_bank_unmasked(r, bank) == [r EXCEPT !.active_bank = bank]
Ram_set_bank(r, bank) ==
    [r EXCEPT !.active_bank = BitAnd(bank, r.num_banks - 1)]

\* impl MemoryRead for Ram: the index read
Ram_index(r, addr) == r.active_bank * Ram_BANK_SIZE + (addr - Ram_BASE_ADDR)

\* impl MemoryRead for Ram; data[index] panics when index >= data.len()
Ram_read(r, addr) ==
    IF Ram_index(r, addr) < r.len
    THEN [value |-> r.data[Ram_index(r, addr)], panic |-> "none"]
    ELSE [value |-> 0, panic |-> IndexOutOfBounds]

\* A store that is not written through to the file.
Ram_write_volatile(r, addr, value) ==
    IF Ram_index(r, addr) < r.len
    THEN Ok([r EXCEPT !.data[Ram_index(r, addr)] = value])
    ELSE Panicked(r, IndexOutOfBounds)

\* Result::unwrap on the Err of a failed seek or write
UnwrapErr == "called Result::unwrap() on an Err value"

\* impl MemoryWrite for Ram: the byte is stored and, with a file attached,
\* written through at the same offset; a failed seek or write panics in
\* unwrap, after the byte was stored
Ram_write(r, addr, value) ==
    IF Ram_index(r, addr) < r.len
    THEN IF r.file.some /\ r.file.failing
         THEN Panicked([r EXCEPT !.data[Ram_index(r, addr)] = value], UnwrapErr)
         ELSE Ok([r EXCEPT !.data[Ram_index(r, addr)] = value,
                           !.file = IF r.file.some
                                    THEN File_write_at(r.file,
                                             Ram_index(r, addr), value)
                                    ELSE r.file])
    ELSE Panicked(r, IndexOutOfBounds)

----------------------------------------------------------------------------
(* cartridge.rs: ROM                                                       *)

\* Byte i of the ROM file image: image 0 is all zero, any other image
\* holds (image * (i + 1)) % 256.  Rom.data is kept as the image it holds.
Rom_byte(image, i) == (image * (i + 1)) % 256

\* Rom::new: zeroed data, banks 0 and 1.  Rom.data is the image loaded and
\* the bytes written over it since (written, by index).
Rom_new(rom_size) ==
    [active_bank_0 |-> 0, active_bank_1 |-> 1,
     num_banks |-> RomSizeBytes(rom_size) \div Rom_BANK_SIZE,
     image |-> 0, written |-> [i \in {} |-> 0]]

\* Rom.data[i]
Rom_data(rom, i) ==
    IF i \in DOMAIN rom.written THEN rom.written[i] ELSE Rom_byte(rom.image, i)

\* Rom::load: the data is read from the ROM file
Rom_load(rom, image) ==
    [rom EXCEPT !.image = image, !.written = [i \in {} |-> 0]]

\* Rom::update_bank_0
Rom_update_bank_0_unchecked(rom, bank) == Ok([rom EXCEPT !.active_bank_0 = bank])
Rom_update_bank_0(rom, bank) ==
    IF bank < rom.num_banks
    THEN Ok([rom EXCEPT !.active_bank_0 = bank])
    ELSE Panicked(rom, AssertBank)

\* Rom::update_bank
Rom_update_bank_unchecked(rom, bank) == Ok([rom EXCEPT !.active_bank_1 = bank])
Rom_update_bank(rom, bank) ==
    IF bank < rom.num_banks
    THEN Ok([rom EXCEPT !.active_bank_1 = bank])
    ELSE Panicked(rom, AssertBank)

\* impl MemoryRead for Rom: the index of Rom.data that a read of addr returns
Rom_index(rom, addr) ==
    IF InRange(addr, \h0000, \h3FFF)
    THEN rom.active_bank_0 * Rom_BANK_SIZE + addr
    ELSE rom.active_bank_1 * Rom_BANK_SIZE + (addr - \h4000)

\* impl MemoryRead for Rom
Rom_read(rom, addr) ==
    IF InRange(addr, \h0000, \h7FFF)
    THEN [value |-> Rom_data(rom, Rom_index(rom, addr)), panic |-> "none"]
    ELSE [value |-> 0, panic |-> Unreachable]

\* impl MemoryWrite for Rom ("only used by tests")
Rom_write(rom, addr, value) ==
    IF InRange(addr, \h0000, \h7FFF)
    THEN Ok([rom EXCEPT !.written = (Rom_index(rom, addr) :> value) @@ @])
    ELSE Panicked(rom, Unreachable)

\* BootRom.data (dmg_boot.bin), its first and last byte
BootRom_data == (\h00 :> \h31) @@ (\hFF :> \h50)

\* impl MemoryRead for BootRom
BootRom_read(addr) == BootRom_data[addr]

----------------------------------------------------------------------------
(* RTC (crate::rtc): select / latch / read / write on five registers       *)
(* 0x8..0xC = S, M, H, DL, DH, with a latched shadow copy.                 *)

RtcRegs == \h8 .. \hC

Rtc_none ==
    [some |-> FALSE, regs |-> [r \in RtcRegs |-> 0],
     latched |-> [r \in RtcRegs |-> 0], selected |-> \h8, latch_value |-> 0]

Rtc_new == [Rtc_none EXCEPT !.some = TRUE]

Rtc_select(rtc, reg) == [rtc EXCEPT !.selected = reg]

Rtc_latch(rtc, value) ==
    IF rtc.latch_value = 0 /\ value = 1
    THEN [rtc EXCEPT !.latched = rtc.regs, !.latch_value = value]
    ELSE [rtc EXCEPT !.latch_value = value]

Rtc_read(rtc) == rtc.latched[rtc.selected]

Rtc_write(rtc, value) == [rtc EXCEPT !.regs[rtc.selected] = value]

----------------------------------------------------------------------------
(* cartridge.rs: Controller                                                *)

\* A Cartridge other than its header: whether the boot ROM was asked for
\* and the contents of the ROM file.
PlainCartridge == [boot_rom |-> FALSE, image |-> 0]

\* Controller::from_cartridge, for a header declaring (type, ROM size, RAM
\* size), a ROM path with save at <rom>.sav and the rest of the cartridge
\* (boot_rom is the tag of the Option)
Controller_from_cartridge(cartridge_type, rom_size, ram_size, save, cartridge) ==
    [boot_rom |-> cartridge.boot_rom,
     rom |-> Rom_load(Rom_new(rom_size), cartridge.image),
     ram |-> IF Ram_new(ram_size).some /\ is_battery_backed(cartridge_type)
             THEN Ram_enable_battery(Ram_new(ram_size), save, FALSE)
             ELSE Ram_new(ram_size),
     rom_size |-> rom_size,
     ram_size |-> ram_size,
     cartridge_type |-> cartridge_type,
     rtc |-> IF is_rtc(cartridge_type) THEN Rtc_new ELSE Rtc_none,
     rtc_active |-> FALSE,
     banking_mode |-> FALSE,
     ram_enable |-> FALSE,
     ram_rom_bank |-> 0]

\* Controller::load on a controller restored from a save state, with `save`
\* at <rom>.sav: a battery-backed type without RAM, or an RTC type without
\* RTC, panics; otherwise the RAM is written over the save file.
Controller_load(c, save) ==
    IF is_battery_backed(c.cartridge_type) /\ ~c.ram.some
    THEN Panicked(c, "Cartridge is battery-backed, yet save file contains no RAM!")
    ELSE IF is_rtc(c.cartridge_type) /\ ~c.rtc.some
    THEN Panicked(c, "Cartridge has RTC enabled, yet save file contains no RTC!")
    ELSE IF is_battery_backed(c.cartridge_type)
    THEN Ok([c EXCEPT !.ram = Ram_enable_battery(c.ram, save, TRUE)])
    ELSE Ok(c)

\* A reset that also clears the RAM enable flag.
Controller_reset_disabling(c) ==
    [c EXCEPT !.ram = Ram_new(c.ram_size), !.ram_enable = FALSE]

\* Controller::reset: self.ram = Ram::new(self.ram_size)
Controller_reset(c) == [c EXCEPT !.ram = Ram_new(c.ram_size)]

\* self.rom.update_bank(bank) inside Controller::write
WithRom(c, r) == [st |-> [c EXCEPT !.rom = r.st], panic |-> r.panic]

\* self.ram.as_mut().unwrap().set_bank(bank) inside Controller::write
Controller_set_ram_bank(c, bank) ==
    IF c.ram.some
    THEN Ok([c EXCEPT !.ram = Ram_set_bank(c.ram, bank)])
    ELSE Panicked(c, UnwrapNone)

\* 0x0000..=0x1FFF if is_mbc1: cartridge RAM enable/disable
Mbc1_ram_enable(c, value) ==
    Ok([c EXCEPT !.ram_enable = (BitAnd(value, \hF) = \hA)])

\* 0x2000..=0x3FFF if is_mbc1: ROM bank select (5 bit register)
Mbc1_rom_bank_nozero(c, value) ==
    WithRom(c, Rom_update_bank(c.rom, BitAnd(value, \h1F)))
\* A bank select that also stores the written byte into the ROM, through
\* Rom::write at the first address of the range.
Mbc1_rom_bank_stored(c, value) ==
    LET v5 == BitAnd(value, \h1F)
        v == IF v5 = 0 THEN 1 ELSE v5
    IN WithRom(c, Rom_update_bank(Rom_write(c.rom, \h2000, value).st, v))
Mbc1_rom_bank(c, value) ==
    LET v5 == BitAnd(value, \h1F)
        v == IF v5 = 0 THEN 1 ELSE v5
    IN WithRom(c, Rom_update_bank(c.rom, v))

\* 0x4000..=0x5FFF if is_mbc1: RAM bank select or upper 2 bits of ROM bank
Mbc1_ram_rom_bank(c, value) ==
    LET v == BitAnd(value, \h03)
        r == IF RamSizeBytes(c.ram_size) = RamSizeBytes("_32K")
             THEN Controller_set_ram_bank(c, v)
             ELSE IF RomSizeBytes(c.rom_size) >= RomSizeBytes("_1M")
             THEN IF ~c.banking_mode
                  THEN WithRom(c, Rom_update_bank(c.rom,
                           BitOr(c.rom.active_bank_1, Shl(v, 5, 16))))
                  ELSE WithRom(c, Rom_update_bank_0(c.rom,
                           CASE v = 0 -> 0
                             [] v = 1 -> \h20
                             [] v = 2 -> \h40
                             [] v = 3 -> \h60))
             ELSE Ok(c)
    IN IF r.panic # "none" THEN r
       ELSE Ok([r.st EXCEPT !.ram_rom_bank = v])

\* A mode select that takes effect on every MBC1 cartridge, small ones
\* included.
Mbc1_banking_mode_always(c, value) ==
    LET large_ram == RamSizeBytes(c.ram_size) >= RamSizeBytes("_32K")
        banking_mode == (BitAnd(value, \h01) = 1)
        r == IF c.ram_enable /\ large_ram /\ banking_mode
             THEN Controller_set_ram_bank(c, c.ram_rom_bank)
             ELSE Ok(c)
    IN IF r.panic # "none" THEN r
       ELSE Ok([r.st EXCEPT !.banking_mode = banking_mode])

\* A mode select that only stores the mode and never applies the stored
\* secondary register to the RAM bank.
Mbc1_banking_mode_deferred(c, value) ==
    LET large_ram == RamSizeBytes(c.ram_size) >= RamSizeBytes("_32K")
        large_rom == RomSizeBytes(c.rom_size) >= RomSizeBytes("_1M")
    IN IF ~large_ram /\ ~large_rom THEN Ok(c)
       ELSE Ok([c EXCEPT !.banking_mode = (BitAnd(value, \h01) = 1)])

\* 0x6000..=0x7FFF if is_mbc1: banking mode select (1 bit)
Mbc1_banking_mode(c, value) ==
    LET large_ram == RamSizeBytes(c.ram_size) >= RamSizeBytes("_32K")
        large_rom == RomSizeBytes(c.rom_size) >= RomSizeBytes("_1M")
        banking_mode == (BitAnd(value, \h01) = 1)
        r == IF c.ram_enable /\ large_ram /\ banking_mode
             THEN Controller_set_ram_bank(c, c.ram_rom_bank)
             ELSE Ok(c)
    IN IF ~large_ram /\ ~large_rom THEN Ok(c)
       ELSE IF r.panic # "none" THEN r
       ELSE Ok([r.st EXCEPT !.banking_mode = banking_mode])

\* 0x0000..=0x3FFF if is_mbc2: ROM bank select
Mbc2_rom_bank(c, addr, value) ==
    LET addr_upper == (addr \div 256) % 256
        v4 == BitAnd(value, \hF)
        v == IF v4 = 0 THEN 1 ELSE v4
    IN IF BitAnd(value, \h80) = 0 THEN Ok(c)
       ELSE IF BitAnd(addr_upper, 1) # 0
       THEN WithRom(c, Rom_update_bank(c.rom, v))
       ELSE Ok(c)

\* 0x0000..=0x1FFF if is_mbc3: cartridge RAM and RTC enable/disable
Mbc3_ram_enable(c, value) == Ok([c EXCEPT !.ram_enable = (value = \hA)])

\* 0x2000..=0x3FFF if is_mbc3: ROM bank select (7 bit register)
Mbc3_rom_bank_nozero(c, value) ==
    WithRom(c, Rom_update_bank(c.rom, BitAnd(value, \h7F)))
Mbc3_rom_bank(c, value) ==
    LET v7 == BitAnd(value, \h7F)
        v == IF v7 = 0 THEN 1 ELSE v7
    IN WithRom(c, Rom_update_bank(c.rom, v))

\* 0x4000..=0x5FFF if is_mbc3: RAM bank select or RTC register select
Mbc3_ram_bank_rtc_select(c, value) ==
    LET v == BitAnd(value, \h0F)
        r == Controller_set_ram_bank(c, v)
    IN IF InRange(v, \h0, \h3)
       THEN IF r.panic # "none" THEN r
            ELSE Ok([r.st EXCEPT !.rtc_active = FALSE])
       ELSE IF InRange(v, \h8, \hC)
       THEN IF c.rtc.some
            THEN Ok([c EXCEPT !.rtc = Rtc_select(c.rtc, v), !.rtc_active = TRUE])
            ELSE Panicked(c, UnwrapNone)
       ELSE Panicked(c, Unreachable)

\* 0x6000..=0x7FFF if is_mbc3: self.rtc.as_mut().unwrap().latch(value)
Mbc3_rtc_latch(c, value) ==
    IF c.rtc.some
    THEN Ok([c EXCEPT !.rtc = Rtc_latch(c.rtc, value)])
    ELSE Panicked(c, UnwrapNone)

\* 0x0000..=0x1FFF if is_mbc5: cartridge RAM enable/disable
Mbc5_ram_enable(c, value) == Ok([c EXCEPT !.ram_enable = (value = 10)])

\* 0x2000..=0x2FFF if is_mbc5: ROM bank select (lower 8 bits)
Mbc5_rom_bank_low(c, value) ==
    WithRom(c, Rom_update_bank(c.rom,
        BitOr(c.rom.active_bank_1 - (c.rom.active_bank_1 % 256), value)))

\* 0x3000..=0x3FFF if is_mbc5: ROM bank select (9th bit)
Mbc5_rom_bank_high(c, value) ==
    WithRom(c, Rom_update_bank(c.rom,
        BitOr(c.rom.active_bank_1, Shl(BitAnd(value, \h1), 8, 16))))

\* 0x4000..=0x5FFF if is_mbc5: RAM bank select (4 bits)
Mbc5_ram_bank(c, value) == Controller_set_ram_bank(c, BitAnd(value, \hF))

\* Ram::BASE_ADDR..=Ram::LAST_ADDR if !self.rtc_active: forward RAM writes
Controller_write_ram_ungated(c, addr, value) ==
    IF c.ram.some
    THEN LET r == Ram_write(c.ram, addr, value)
         IN [st |-> [c EXCEPT !.ram = r.st], panic |-> r.panic]
    ELSE Panicked(c, UnwrapNone)
Controller_write_ram(c, addr, value) ==
    IF c.ram_enable
    THEN IF c.ram.some
         THEN LET r == Ram_write(c.ram, addr, value)
              IN [st |-> [c EXCEPT !.ram = r.st], panic |-> r.panic]
         ELSE Panicked(c, UnwrapNone)
    ELSE Ok(c)

\* Ram::BASE_ADDR..=Ram::LAST_ADDR if self.rtc_active: writes go to the RTC
Controller_write_rtc(c, value) ==
    IF c.ram_enable
    THEN IF c.rtc.some
         THEN Ok([c EXCEPT !.rtc = Rtc_write(c.rtc, value)])
         ELSE Panicked(c, UnwrapNone)
    ELSE Ok(c)

\* impl MemoryWrite<u16, u8> for Controller: the match on addr, arm by arm.
\* The guards of the arms exclude one another, the last arm ignores the write.
Controller_write(c, addr, value) ==
    LET t == c.cartridge_type IN
    CASE InRange(addr, \h0000, \h1FFF) /\ is_mbc1(t) -> Mbc1_ram_enable(c, value)
      [] InRange(addr, \h2000, \h3FFF) /\ is_mbc1(t) -> Mbc1_rom_bank(c, value)
      [] InRange(addr, \h4000, \h5FFF) /\ is_mbc1(t) -> Mbc1_ram_rom_bank(c, value)
      [] InRange(addr, \h6000, \h7FFF) /\ is_mbc1(t) -> Mbc1_banking_mode(c, value)
      [] InRange(addr, \h0000, \h3FFF) /\ is_mbc2(t) -> Mbc2_rom_bank(c, addr, value)
      [] InRange(addr, \h0000, \h1FFF) /\ is_mbc3(t) -> Mbc3_ram_enable(c, value)
      [] InRange(addr, \h2000, \h3FFF) /\ is_mbc3(t) -> Mbc3_rom_bank(c, value)
      [] InRange(addr, \h4000, \h5FFF) /\ is_mbc3(t) ->
             Mbc3_ram_bank_rtc_select(c, value)
      [] InRange(addr, \h6000, \h7FFF) /\ is_mbc3(t) -> Mbc3_rtc_latch(c, value)
      [] InRange(addr, \h0000, \h1FFF) /\ is_mbc5(t) -> Mbc5_ram_enable(c, value)
      [] InRange(addr, \h2000, \h2FFF) /\ is_mbc5(t) -> Mbc5_rom_bank_low(c, value)
      [] InRange(addr, \h3000, \h3FFF) /\ is_mbc5(t) -> Mbc5_rom_bank_high(c, value)
      [] InRange(addr, \h4000, \h5FFF) /\ is_mbc5(t) -> Mbc5_ram_bank(c, value)
      [] InRange(addr, Ram_BASE_ADDR, Ram_LAST_ADDR) /\ ~c.rtc_active ->
             Controller_write_ram(c, addr, value)
      [] InRange(addr, Ram_BASE_ADDR, Ram_LAST_ADDR) /\ c.rtc_active ->
             Controller_write_rtc(c, value)
      [] OTHER -> Ok(c)

\* impl MemoryRead<u16, u8> for Controller, 0xA000..=0xBFFF
Controller_read_ram(c, addr) ==
    IF ~c.rtc_active
    THEN IF c.ram.some THEN Ram_read(c.ram, addr)
         ELSE [value |-> 0, panic |-> UnwrapNone]
    ELSE IF c.rtc.some THEN [value |-> Rtc_read(c.rtc), panic |-> "none"]
         ELSE [value |-> 0, panic |-> UnwrapNone]

----------------------------------------------------------------------------
(* memory.rs: work RAM                                                     *)

WorkRam_BANK_SIZE == 4 * 1024
WorkRam_BASE_ADDR == \hC000
WorkRam_LAST_ADDR == \hDFFF
WorkRam_BANK_SELECT_ADDR == \hFF70

\* The addresses of 0xC000-0xDFFF the model stores bytes for.
WorkRamAddrs == {\hC000, \hCFFF, \hD000, \hDFFF}

\* The indices of the work RAM's data the sampled addresses can reach.
WorkRamCells(len) ==
    {i \in {b * WorkRam_BANK_SIZE + (a - WorkRam_BASE_ADDR) :
                b \in 0..7, a \in WorkRamAddrs} : i < len}

\* Ram::new (memory.rs)
WorkRam_new(cgb) ==
    IF cgb
    THEN [banked |-> TRUE, len |-> WorkRam_BANK_SIZE * 8, active_bank |-> 0,
          data |-> [i \in WorkRamCells(WorkRam_BANK_SIZE * 8) |-> 0]]
    ELSE [banked |-> FALSE, len |-> WorkRam_BANK_SIZE * 2, active_bank |-> 0,
          data |-> [i \in WorkRamCells(WorkRam_BANK_SIZE * 2) |-> 0]]

\* Ram::update_bank (memory.rs)
WorkRam_update_bank(r, bank) ==
    IF r.banked
    THEN Ok([r EXCEPT !.active_bank = BitAnd(bank, 7)])
    ELSE Panicked(r, "Received RAM bank change request on unbanked RAM")

\* impl MemoryRead / MemoryWrite for Ram (memory.rs): the index accessed
WorkRam_index(r, addr) ==
    LET a == addr - WorkRam_BASE_ADDR
    IN IF ~r.banked THEN a
       ELSE IF InRange(a, \h0000, \h0FFF) THEN a
       ELSE r.active_bank * WorkRam_BANK_SIZE + a

\* impl MemoryRead for Ram (memory.rs)
WorkRam_read(r, addr) ==
    IF WorkRam_index(r, addr) < r.len
    THEN [value |-> r.data[WorkRam_index(r, addr)], panic |-> "none"]
    ELSE [value |-> 0, panic |-> IndexOutOfBounds]

\* impl MemoryWrite for Ram (memory.rs)
WorkRam_write(r, addr, value) ==
    IF WorkRam_index(r, addr) < r.len
    THEN Ok([r EXCEPT !.data[WorkRam_index(r, addr)] = value])
    ELSE Panicked(r, IndexOutOfBounds)

----------------------------------------------------------------------------
(* memory.rs: Timer                                                        *)

TIMER_RATIO == 256

\* Timer::new
Timer_new == [div |-> 0, tima |-> 0, tma |-> 0, tac |-> 0, last_tima_cycle |-> 0]

\* Timer::enabled
Timer_enabled(t) == BitAnd(t.tac, Shl(1, 2, 8)) # 0

\* Timer::tima_ratio
Timer_tima_ratio(t) ==
    CASE BitAnd(t.tac, \h3) = 0 -> TIMER_RATIO * 4
      [] BitAnd(t.tac, \h3) = 1 -> TIMER_RATIO \div 16
      [] BitAnd(t.tac, \h3) = 2 -> TIMER_RATIO \div 4
      [] BitAnd(t.tac, \h3) = 3 -> TIMER_RATIO

\* Timer::step.  `cycle - ratio` is a u64 subtraction: when cycle < ratio it
\* panics in a build with overflow checks and wraps to 2^64 + cycle - ratio in
\* a build without (`checked` tells the build); the wrapped difference is at
\* least 2^64 - 1024, above every last_tima_cycle, so the comparison is true.
\* The result carries the interrupt request the call returns.
Timer_step(t, c, checked) ==
    LET t1 == [t EXCEPT !.div = (c \div TIMER_RATIO) % 256]
        ratio == Timer_tima_ratio(t1)
        tick == IF c >= ratio THEN c - ratio >= t1.last_tima_cycle ELSE TRUE
        tima == IF tick THEN (t1.tima + 1) % 256 ELSE t1.tima
    IN IF Timer_enabled(t1)
       THEN IF c < ratio /\ checked
            THEN [st |-> t1, panic |-> "attempt to subtract with overflow",
                  interrupt |-> FALSE]
            ELSE IF tima < t1.tima
            THEN [st |-> [t1 EXCEPT !.tima = t1.tma], panic |-> "none",
                  interrupt |-> TRUE]
            ELSE [st |-> [t1 EXCEPT !.tima = tima], panic |-> "none",
                  interrupt |-> FALSE]
       ELSE [st |-> [t1 EXCEPT !.last_tima_cycle = c], panic |-> "none",
             interrupt |-> FALSE]

\* Timer::read
Timer_read(t, addr) ==
    CASE addr = \hFF04 -> t.div
      [] addr = \hFF05 -> t.tima
      [] addr = \hFF06 -> t.tma
      [] addr = \hFF07 -> t.tac

\* Timer::write
Timer_write(t, addr, value) ==
    CASE addr = \hFF04 -> [t EXCEPT !.div = 0]
      [] addr = \hFF05 -> [t EXCEPT !.tima = value]
      [] addr = \hFF06 -> [t EXCEPT !.tma = value]
      [] addr = \hFF07 -> [t EXCEPT !.tac = value]

----------------------------------------------------------------------------
(* memory.rs: Io                                                           *)

\* The indices of Io.sound, Io.waveform_ram and Io.hdma the model stores.
SoundCells == {0, 22}
WaveformCells == {0, 15}
HdmaCells == {0, 4}

\* Io::new.  The joypad (crate::joypad) is kept as the byte last written to it.
Io_new ==
    [joypad |-> 0,
     serial |-> <<0, 0>>,
     timer |-> Timer_new,
     int_flags |-> 0,
     sound |-> [i \in SoundCells |-> 0],
     waveform_ram |-> [i \in WaveformCells |-> 0],
     prep_speed_switch |-> 0,
     disable_boot_rom |-> 0,
     hdma |-> [i \in HdmaCells |-> 0],
     rp |-> 0]

\* Joypad::write (crate::joypad)
Joypad_write(j, value) == value

\* Io::speed
Io_speed(i) == BitAnd(i.prep_speed_switch, Shl(1, 7, 8)) # 0

\* impl MemoryWrite<u16, u8> for Io
Io_write(i, addr, value) ==
    CASE addr = \hFF00 -> Ok([i EXCEPT !.joypad = Joypad_write(i.joypad, value)])
      [] addr = \hFF01 -> Ok([i EXCEPT !.serial[1] = value])
      [] addr = \hFF02 -> Ok([i EXCEPT !.serial[2] = value])
      [] InRange(addr, \hFF04, \hFF07) ->
             Ok([i EXCEPT !.timer = Timer_write(i.timer, addr, value)])
      [] addr = \hFF0F -> Ok([i EXCEPT !.int_flags = value])
      [] InRange(addr, \hFF10, \hFF26) ->
             Ok([i EXCEPT !.sound[addr - \hFF10] = value])
      [] InRange(addr, \hFF30, \hFF3F) ->
             Ok([i EXCEPT !.waveform_ram[addr - \hFF30] = value])
      [] addr = \hFF4D ->
             Ok([i EXCEPT !.prep_speed_switch =
                    IF BitAnd(value, \h1) # 0 THEN Shl(1, 7, 8) ELSE 0])
      [] addr = \hFF50 -> Ok([i EXCEPT !.disable_boot_rom = value])
      [] InRange(addr, \hFF51, \hFF55) ->
             Ok([i EXCEPT !.hdma[addr - \hFF51] = value])
      [] addr = \hFF56 -> Ok([i EXCEPT !.rp = value])
      [] OTHER -> Panicked(i, "Invalid write to address")

\* Joypad::read (crate::joypad)
Joypad_read(j) == j

\* The value a read returns, or the panic it raises
Value(v) == [value |-> v, panic |-> "none"]
ReadPanic(why) == [value |-> 0, panic |-> why]

\* impl MemoryRead<u16, u8> for Io (the panic message of the last arm says
\* "write")
Io_read(i, addr) ==
    CASE addr = \hFF00 -> Value(Joypad_read(i.joypad))
      [] addr = \hFF01 -> Value(i.serial[1])
      [] addr = \hFF02 -> Value(i.serial[2])
      [] InRange(addr, \hFF04, \hFF07) -> Value(Timer_read(i.timer, addr))
      [] addr = \hFF0F -> Value(i.int_flags)
      [] InRange(addr, \hFF10, \hFF26) -> Value(i.sound[addr - \hFF10])
      [] InRange(addr, \hFF30, \hFF3F) -> Value(i.waveform_ram[addr - \hFF30])
      [] addr = \hFF4D -> Value(i.prep_speed_switch)
      [] addr = \hFF50 -> Value(i.disable_boot_rom)
      [] InRange(addr, \hFF51, \hFF55) -> Value(i.hdma[addr - \hFF51])
      [] addr = \hFF56 -> Value(i.rp)
      [] OTHER -> ReadPanic("Invalid write to address")

----------------------------------------------------------------------------
(* ppu.rs: Vram and the PPU registers                                      *)

Vram_BANK_SIZE == 8 * 1024
Vram_BASE_ADDR == \h8000
Vram_LAST_ADDR == \h9FFF
Vram_BANK_SELECT_ADDR == \hFF4F

\* The addresses of 0x8000-0x9FFF the model stores bytes for.
VramAddrs == {\h8000, \h9FFF}

\* The indices of Vram's data the sampled addresses can reach.
VramCells(banks) ==
    {b * Vram_BANK_SIZE + (a - Vram_BASE_ADDR) : b \in 0..(banks - 1), a \in VramAddrs}

\* Vram::new
Vram_new(cgb) ==
    IF cgb
    THEN [banked |-> TRUE, active_bank |-> 0, data |-> [i \in VramCells(2) |-> 0]]
    ELSE [banked |-> FALSE, active_bank |-> 0, data |-> [i \in VramCells(1) |-> 0]]

\* Vram::update_bank
Vram_update_bank(v, bank) ==
    IF v.banked
    THEN IF bank < 2 THEN Ok([v EXCEPT !.active_bank = bank])
         ELSE Panicked(v, "assertion failed: bank < 2")
    ELSE Panicked(v, "Received VRAM bank change request on unbanked VRAM")

\* impl MemoryRead / MemoryWrite for Vram: the index accessed
Vram_index(v, addr) ==
    IF v.banked THEN v.active_bank * Vram_BANK_SIZE + (addr - Vram_BASE_ADDR)
    ELSE addr - Vram_BASE_ADDR

\* impl MemoryWrite for Vram
Vram_write(v, addr, value) == [v EXCEPT !.data[Vram_index(v, addr)] = value]

\* impl MemoryRead for Vram
Vram_read(v, addr) == v.data[Vram_index(v, addr)]

\* The indices of Ppu.oam the model stores.
OamCells == {0, 159}

\* Ppu::new
Ppu_new(cgb) ==
    [vram |-> Vram_new(cgb),
     oam |-> [i \in OamCells |-> 0],
     lcdc |-> 0, stat |-> 0, scy |-> 0, scx |-> 0, ly |-> 0, lyc |-> 0,
     wy |-> 0, wx |-> 0, bcps |-> 0, bcpd |-> 0, ocps |-> 0, ocpd |-> 0,
     oam_enabled |-> FALSE, vblank_enabled |-> FALSE,
     hblank_enabled |-> FALSE, ly_enabled |-> FALSE]

\* impl MemoryWrite<u16, u8> for Ppu, STAT_ADDR arm
Ppu_write_stat(p, value) ==
    [p EXCEPT !.stat = value,
              !.hblank_enabled = BitAnd(value, Shl(1, 3, 8)) # 0,
              !.vblank_enabled = BitAnd(value, Shl(1, 4, 8)) # 0,
              !.oam_enabled = BitAnd(value, Shl(1, 5, 8)) # 0,
              !.ly_enabled = BitAnd(value, Shl(1, 6, 8)) # 0]

\* impl MemoryWrite<u16, u8> for Ppu, LY_ADDR arm
Ppu_write_ly(p, value) ==
    IF BitAnd(p.ly, Shl(1, 7, 8)) # 0
    THEN IF BitAnd(value, Shl(1, 7, 8)) = 0 THEN [p EXCEPT !.ly = 0] ELSE p
    ELSE [p EXCEPT !.ly = value]

\* impl MemoryWrite<u16, u8> for Ppu, 0xFF69 arm.  In `self.bcps & 0x3F + 1`
\* the sum binds tighter than the mask.
Ppu_write_bcpd(p, value) ==
    LET p1 == [p EXCEPT !.bcpd = value]
        masked == BitAnd(p1.bcps, \h3F + 1)
        bcp_index == IF masked > \h3F THEN \h00 ELSE masked
    IN IF BitAnd(p1.bcps, Shl(1, 7, 8)) # 0
       THEN [p1 EXCEPT !.bcps = bcp_index]
       ELSE p1

\* impl MemoryWrite<u16, u8> for Ppu
Ppu_write(p, addr, value) ==
    CASE InRange(addr, Vram_BASE_ADDR, Vram_LAST_ADDR) ->
             Ok([p EXCEPT !.vram = Vram_write(p.vram, addr, value)])
      [] InRange(addr, \hFE00, \hFE9F) -> Ok([p EXCEPT !.oam[addr - \hFE00] = value])
      [] addr = \hFF40 -> Ok([p EXCEPT !.lcdc = value])
      [] addr = \hFF41 -> Ok(Ppu_write_stat(p, value))
      [] addr = \hFF42 -> Ok([p EXCEPT !.scy = value])
      [] addr = \hFF43 -> Ok([p EXCEPT !.scx = value])
      [] addr = \hFF44 -> Ok(Ppu_write_ly(p, value))
      [] addr = \hFF45 -> Ok([p EXCEPT !.lyc = value])
      [] addr = \hFF4A -> Ok([p EXCEPT !.wy = value])
      [] addr = \hFF4B -> Ok([p EXCEPT !.wx = value])
      [] addr = \hFF68 -> Ok([p EXCEPT !.bcps = value])
      [] addr = \hFF69 -> Ok(Ppu_write_bcpd(p, value))
      [] addr = \hFF6A -> Ok([p EXCEPT !.ocps = value])
      [] addr = \hFF6B -> Ok([p EXCEPT !.ocpd = value])
      [] OTHER -> Panicked(p, "Unexpected write to addr")

\* impl MemoryRead<u16, u8> for Ppu
Ppu_read(p, addr) ==
    CASE InRange(addr, Vram_BASE_ADDR, Vram_LAST_ADDR) ->
             Value(Vram_read(p.vram, addr))
      [] InRange(addr, \hFE00, \hFE9F) -> Value(p.oam[addr - \hFE00])
      [] addr = \hFF40 -> Value(p.lcdc)
      [] addr = \hFF41 -> Value(p.stat)
      [] addr = \hFF42 -> Value(p.scy)
      [] addr = \hFF43 -> Value(p.scx)
      [] addr = \hFF44 -> Value(p.ly)
      [] addr = \hFF45 -> Value(p.lyc)
      [] addr = \hFF4A -> Value(p.wy)
      [] addr = \hFF4B -> Value(p.wx)
      [] addr = \hFF68 -> Value(p.bcps)
      [] addr = \hFF69 -> Value(p.bcpd)
      [] addr = \hFF6A -> Value(p.ocps)
      [] addr = \hFF6B -> Value(p.ocpd)
      [] OTHER -> ReadPanic("Unexpected read from addr")

\* enum StatMode, as u8
StatMode_Hblank == 0
StatMode_Vblank == 1
StatMode_OamScan == 2
StatMode_OamRead == 3

Ppu_DOT_DURATION_NS == 238
Ppu_DOTS_PER_LINE == 456
Ppu_VBLANK_START_LINE == 144

\* Ppu::update(cycle, cycle_time), cycle and cycle_time being u32.  A u32
\* division by zero panics in every build; `as u8` keeps the low eight bits
\* of the line.  The result carries the two interrupt flags returned.
Ppu_update(p, c, cycle_time) ==
    LET divisor == cycle_time \div Ppu_DOT_DURATION_NS
        dot == c \div divisor
        line == (dot \div Ppu_DOTS_PER_LINE) % 256
        prev_ly_coincidence == BitAnd(p.stat, Shl(1, 2, 8)) # 0
        ly_coincidence == line = p.lyc
        prev_mode == BitAnd(p.stat, \h3)
        mode == IF line < Ppu_VBLANK_START_LINE
                THEN IF InRange(dot % Ppu_DOTS_PER_LINE, 0, 79)
                     THEN StatMode_OamScan
                     ELSE IF InRange(dot % Ppu_DOTS_PER_LINE, 80, 329)
                     THEN StatMode_OamRead
                     ELSE StatMode_Hblank
                ELSE StatMode_Vblank
        stat == IF ly_coincidence THEN BitOr(mode, Shl(1, 2, 8)) ELSE mode
    IN IF divisor = 0
       THEN [st |-> p, panic |-> "attempt to divide by zero",
             vblank_interrupt |-> FALSE, stat_interrupt |-> FALSE]
       ELSE [st |-> [p EXCEPT !.ly = line, !.stat = stat],
             panic |-> "none",
             vblank_interrupt |-> prev_mode # mode /\ mode = StatMode_Vblank,
             stat_interrupt |->
                 \/ p.ly_enabled /\ ~prev_ly_coincidence /\ ly_coincidence
                 \/ /\ prev_mode # mode
                    /\ CASE mode = StatMode_Hblank -> p.hblank_enabled
                          [] mode = StatMode_Vblank -> p.vblank_enabled
                          [] OTHER -> p.oam_enabled]

----------------------------------------------------------------------------
(* memory.rs: MemoryBus                                                    *)

\* The indices of MemoryBus.high_ram the model stores.
HighRamCells == {0, \h7E}

\* MemoryBus::from_cartridge: the bus as a record of its fields
MemoryBus_from_cartridge(cartridge_type, rom_size, ram_size, save, cartridge) ==
    [controller |-> Controller_from_cartridge(cartridge_type, rom_size,
                                              ram_size, save, cartridge),
     ppu |-> Ppu_new(TRUE),
     ram |-> WorkRam_new(TRUE),
     io |-> Io_new,
     high_ram |-> [i \in HighRamCells |-> 0],
     int_enable |-> 0]

\* impl MemoryWrite<u16, u8> for MemoryBus: the match on addr, first arm first
MemoryBus_write(b, addr, value) ==
    IF InRange(addr, Rom_BASE_ADDR, Rom_LAST_ADDR)
    THEN LET r == Controller_write(b.controller, addr, value)
         IN [st |-> [b EXCEPT !.controller = r.st], panic |-> r.panic]
    ELSE IF InRange(addr, Vram_BASE_ADDR, Vram_LAST_ADDR)
    THEN Ok([b EXCEPT !.ppu.vram = Vram_write(b.ppu.vram, addr, value)])
    ELSE IF InRange(addr, Ram_BASE_ADDR, Ram_LAST_ADDR)
    THEN LET r == Controller_write(b.controller, addr, value)
         IN [st |-> [b EXCEPT !.controller = r.st], panic |-> r.panic]
    ELSE IF InRange(addr, WorkRam_BASE_ADDR, WorkRam_LAST_ADDR)
    THEN LET r == WorkRam_write(b.ram, addr, value)
         IN [st |-> [b EXCEPT !.ram = r.st], panic |-> r.panic]
    ELSE IF addr = Vram_BANK_SELECT_ADDR
    THEN LET r == Vram_update_bank(b.ppu.vram, value)
         IN [st |-> [b EXCEPT !.ppu.vram = r.st], panic |-> r.panic]
    ELSE IF InRange(addr, \hFE00, \hFE9F) \/ InRange(addr, \hFF40, \hFF4B)
            \/ InRange(addr, \hFF68, \hFF69)
    THEN LET r == Ppu_write(b.ppu, addr, value)
         IN [st |-> [b EXCEPT !.ppu = r.st], panic |-> r.panic]
    ELSE IF InRange(addr, \hFF80, \hFFFE)
    THEN Ok([b EXCEPT !.high_ram[addr - \hFF80] = value])
    ELSE IF addr = WorkRam_BANK_SELECT_ADDR
    THEN LET r == WorkRam_update_bank(b.ram, value)
         IN [st |-> [b EXCEPT !.ram = r.st], panic |-> r.panic]
    ELSE IF addr = \hFFFF
    THEN Ok([b EXCEPT !.int_enable = value])
    ELSE LET r == Io_write(b.io, addr, value)
         IN [st |-> [b EXCEPT !.io = r.st], panic |-> r.panic]

\* impl MemoryRead<u16, u8> for MemoryBus: the match on addr, first arm first
MemoryBus_read(b, addr) ==
    IF InRange(addr, Rom_BASE_ADDR, Rom_LAST_ADDR)
    THEN Rom_read(b.controller.rom, addr)
    ELSE IF InRange(addr, Vram_BASE_ADDR, Vram_LAST_ADDR)
    THEN Value(Vram_read(b.ppu.vram, addr))
    ELSE IF InRange(addr, Ram_BASE_ADDR, Ram_LAST_ADDR)
    THEN IF b.controller.ram.some THEN Ram_read(b.controller.ram, addr)
         ELSE ReadPanic(UnwrapNone)
    ELSE IF InRange(addr, WorkRam_BASE_ADDR, WorkRam_LAST_ADDR)
    THEN WorkRam_read(b.ram, addr)
    ELSE IF addr = Vram_BANK_SELECT_ADDR
    THEN Value(BitOr(b.ppu.vram.active_bank, \hFE))
    ELSE IF InRange(addr, \hFE00, \hFE9F) \/ InRange(addr, \hFF40, \hFF4B)
            \/ InRange(addr, \hFF68, \hFF69)
    THEN Ppu_read(b.ppu, addr)
    ELSE IF InRange(addr, \hFF80, \hFFFE)
    THEN Value(b.high_ram[addr - \hFF80])
    ELSE IF addr = \hFFFF
    THEN Value(b.int_enable)
    ELSE Io_read(b.io, addr)

\* u16::to_le_bytes
to_be_bytes(value) == <<value \div 256, value % 256>>
to_le_bytes(value) == <<value % 256, value \div 256>>

\* impl MemoryWrite<u16, u16> for MemoryBus; a panic in the first byte write
\* aborts before the second.  `addr+1` is a u16 addition: at addr = 0xFFFF it
\* panics in a build with overflow checks and wraps to 0 in a build without
\* (`checked` tells the build).
MemoryBus_write16(b, addr, value, checked) ==
    LET bytes == to_le_bytes(value)
        r1 == MemoryBus_write(b, addr, bytes[1])
    IN IF r1.panic # "none" THEN r1
       ELSE IF addr = \hFFFF /\ checked
       THEN Panicked(r1.st, "attempt to add with overflow")
       ELSE MemoryBus_write(r1.st, (addr + 1) % (2 ^ 16), bytes[2])

----------------------------------------------------------------------------
(* Cartridge::verify_header_checksum                                       *)

HEADER_SIZE == \h50

RECURSIVE checksum_loop(_, _, _, _)
\* The loop `for b in &self.header[i..=hi]` over the u8 accumulator
checksum_loop(h, i, hi, checksum) ==
    IF i > hi THEN checksum
    ELSE checksum_loop(h, i + 1, hi,
             (((checksum - h[i]) % 256) - 1) % 256)

\* Cartridge::header_checksum
header_checksum(h) == h[\h4D]

\* Cartridge.header as Cartridge::from_file reads it from a ROM image of the
\* given type and sizes (the bytes cartridge_type(), rom_size() and
\* ram_size() decode), with the given first title byte, mask ROM version and
\* header checksum; the other bytes the model keeps 0.
Cartridge_header(cartridge_type, rom_size, ram_size, title, version, checksum) ==
    [i \in 0..(HEADER_SIZE - 1) |->
        CASE i = \h34 -> title
          [] i = \h47 -> CartridgeType_as_u8(cartridge_type)
          [] i = \h48 -> RomSize_as_u8(rom_size)
          [] i = \h49 -> RamSize_as_u8(ram_size)
          [] i = \h4C -> version
          [] i = \h4D -> checksum
          [] OTHER -> 0]

\* Cartridge::verify_header_checksum without the `wrapping_sub(1)`
verify_no_decrement(h) ==
    LET RECURSIVE loop(_, _)
        loop(i, acc) == IF i > \h4C THEN acc ELSE loop(i + 1, (acc - h[i]) % 256)
    IN loop(\h34, 0) = header_checksum(h)
verify_header_checksum(h) ==
    checksum_loop(h, \h34, \h4C, 0) = header_checksum(h)

----------------------------------------------------------------------------
(* The state machine                                                       *)

\* The MemoryBus as a record of its fields.
Bus ==
    [controller |-> controller, ppu |-> ppu, ram |-> ram, io |-> io,
     high_ram |-> high_ram, int_enable |-> int_enable]

\* The bus after an operation with result r.
SetBus(r) ==
    /\ controller' = r.st.controller
    /\ ppu' = r.st.ppu
    /\ ram' = r.st.ram
    /\ io' = r.st.io
    /\ high_ram' = r.st.high_ram
    /\ int_enable' = r.st.int_enable
    /\ panic' = r.panic

\* State after MemoryBus::from_cartridge for a cartridge with header h and
\* `save` at <rom>.sav, in a build with (`checked`) or without overflow
\* checks, once the timer has been stepped up to the absolute cycle `start`
\* with no register written: div and last_tima_cycle are what Timer::step
\* leaves (start = 0: Timer::new).  `wrote` is the value of `stored`.
BootState(cartridge_type, rom_size, ram_size, save, cartridge, wrote, h, start, checked) ==
    LET b == MemoryBus_from_cartridge(cartridge_type, rom_size, ram_size, save,
                                      cartridge)
    IN [controller |-> b.controller,
        ppu |-> b.ppu,
        ram |-> b.ram,
        io |-> [b.io EXCEPT !.timer = Timer_step(b.io.timer, start, checked).st],
        high_ram |-> b.high_ram,
        int_enable |-> b.int_enable,
        cycle |-> start,
        header |-> h,
        verified |-> [done |-> FALSE, ok |-> FALSE],
        panic |-> "none",
        overflow_checks |-> checked,
        nops |-> 0,
        div_written |-> -1,
        stored |-> wrote,
        last |-> [op |-> "boot", addr |-> 0, value |-> 0, save |-> save,
                  result |-> "Ok"]]

\* The emulator starts in the state BootState gives.
BootAt(cartridge_type, rom_size, ram_size, save, cartridge, wrote, h, start, checked) ==
    LET s == BootState(cartridge_type, rom_size, ram_size, save, cartridge,
                       wrote, h, start, checked)
    IN /\ controller = s.controller
       /\ ppu = s.ppu
       /\ ram = s.ram
       /\ io = s.io
       /\ high_ram = s.high_ram
       /\ int_enable = s.int_enable
       /\ cycle = s.cycle
       /\ header = s.header
       /\ verified = s.verified
       /\ panic = s.panic
       /\ overflow_checks = s.overflow_checks
       /\ nops = s.nops
       /\ div_written = s.div_written
       /\ stored = s.stored
       /\ last = s.last

\* Whether a write to addr reaches a byte of cartridge RAM that is present,
\* enabled and selected (not the RTC).
RamStore(c, addr) ==
    /\ InRange(addr, Ram_BASE_ADDR, Ram_LAST_ADDR)
    /\ c.ram.some /\ c.ram_enable /\ ~c.rtc_active
    /\ Ram_index(c.ram, addr) < c.ram.len

\* `stored` after a byte write of value to addr.
Remember(s, c, addr, value) ==
    IF RamStore(c, addr)
    THEN (Ram_index(c.ram, addr) :> value) @@ s
    ELSE s

\* bus.write(addr, value: u8)
Write8(addr, value, counted) ==
    /\ panic = "none"
    /\ SetBus(MemoryBus_write(Bus, addr, value))
    /\ nops' = IF counted THEN nops + 1 ELSE nops
    /\ div_written' = IF addr = \hFF04 THEN cycle ELSE div_written
    /\ stored' = IF panic' = "none"
                 THEN Remember(stored, controller, addr, value)
                 ELSE stored
    /\ last' = [op |-> "write8", addr |-> addr, value |-> value]
    /\ UNCHANGED <<cycle, header, verified, overflow_checks>>

\* bus.write(addr, value: u16)
Write16(addr, value, counted) ==
    /\ panic = "none"
    /\ SetBus(MemoryBus_write16(Bus, addr, value, overflow_checks))
    /\ nops' = IF counted THEN nops + 1 ELSE nops
    /\ div_written' = IF addr = \hFF04 \/ addr + 1 = \hFF04 THEN cycle ELSE div_written
    /\ stored' = IF panic' = "none"
                 THEN Remember(Remember(stored, controller, addr, value % 256),
                               controller, (addr + 1) % 65536, value \div 256)
                 ELSE stored
    /\ last' = [op |-> "write16", addr |-> addr, value |-> value]
    /\ UNCHANGED <<cycle, header, verified, overflow_checks>>

\* The header of an untitled ROM image, version 0, whose checksum byte is
\* the one the checksum loop computes.
PlainHeader(cartridge_type, rom_size, ram_size) ==
    LET h == Cartridge_header(cartridge_type, rom_size, ram_size, 0, 0, 0)
    IN [h EXCEPT ![\h4D] = checksum_loop(h, \h34, \h4C, 0)]

\* Boot at cycle 0.  The operations of the specifications that start here
\* make no arithmetic that can overflow, so the build does not matter to them.
Boot(cartridge_type, rom_size, ram_size) ==
    BootAt(cartridge_type, rom_size, ram_size, NoFile, PlainCartridge, <<>>,
           PlainHeader(cartridge_type, rom_size, ram_size), 0, FALSE)

\* One call of Timer::step, `elapsed` cycles after the previous one; `last`
\* keeps what the call returned.
TimerStep(elapsed) ==
    LET r == Timer_step(io.timer, cycle + elapsed, overflow_checks)
    IN /\ panic = "none"
       /\ cycle' = cycle + elapsed
       /\ io' = [io EXCEPT !.timer = r.st]
       /\ panic' = r.panic
       /\ nops' = nops + 1
       /\ last' = [op |-> "step", addr |-> 0, value |-> elapsed,
                   interrupt |-> r.interrupt,
                   tick |-> r.interrupt \/ r.st.tima # io.timer.tima]
       /\ UNCHANGED <<controller, ppu, ram, high_ram, int_enable, header,
                      verified, overflow_checks, div_written, stored>>

\* One call of Ppu::update, elapsed cycles after the previous one; last
\* keeps what the call was given and what it returned.
PpuUpdate(elapsed, cycle_time) ==
    LET r == Ppu_update(ppu, cycle + elapsed, cycle_time)
    IN /\ panic = "none"
       /\ cycle' = cycle + elapsed
       /\ ppu' = r.st
       /\ panic' = r.panic
       /\ nops' = nops + 1
       /\ last' = [op |-> "update", addr |-> 0, value |-> elapsed,
                   cycle_time |-> cycle_time,
                   vblank_interrupt |-> r.vblank_interrupt,
                   stat_interrupt |-> r.stat_interrupt]
       /\ UNCHANGED <<controller, ram, io, high_ram, int_enable, header,
                      verified, overflow_checks, div_written, stored>>

\* One call of Cartridge::verify_header_checksum.
Verify ==
    /\ panic = "none"
    /\ ~verified.done
    /\ verified' = [done |-> TRUE, ok |-> verify_header_checksum(header)]
    /\ last' = [op |-> "verify", addr |-> 0, value |-> 0]
    /\ UNCHANGED <<controller, ppu, ram, io, high_ram, int_enable, cycle,
                   header, panic, overflow_checks, nops, div_written, stored>>

\* The system starts failing seeks and writes on the attached save file
\* (the Err that file.seek / file.write return in Ram::write).
SaveFileFault ==
    /\ panic = "none"
    /\ controller.ram.file.some
    /\ ~controller.ram.file.failing
    /\ controller' = [controller EXCEPT !.ram.file.failing = TRUE]
    /\ last' = [op |-> "fault", addr |-> 0, value |-> 0]
    /\ UNCHANGED <<ppu, ram, io, high_ram, int_enable, cycle, header, verified,
                   panic, overflow_checks, nops, div_written, stored>>

\* The controller is restored from a save state taken now (Ram.file is
\* skipped by the serialization) and Controller::load is called with the
\* ROM path; `last` keeps the Result returned.
LoadState ==
    LET r == Controller_load([controller EXCEPT !.ram.file = NoFile],
                             controller.ram.file)
    IN /\ panic = "none"
       /\ ~controller.ram.file.failing
       /\ controller' = r.st
       /\ panic' = r.panic
       /\ last' = [op |-> "load", addr |-> 0, value |-> 0, result |-> "Ok"]
       /\ UNCHANGED <<ppu, ram, io, high_ram, int_enable, cycle, header,
                      verified, overflow_checks, nops, div_written, stored>>

\* controller.reset(); `last` keeps whether a byte of the RAM was not 0 and
\* which bank was active when it was called.
Reset ==
    /\ panic = "none"
    /\ controller' = Controller_reset(controller)
    /\ stored' = <<>>
    /\ last' = [op |-> "reset", addr |-> 0, value |-> 0,
                dirty |-> \E i \in DOMAIN controller.ram.data :
                              controller.ram.data[i] # 0,
                bank |-> controller.ram.active_bank]
    /\ UNCHANGED <<ppu, ram, io, high_ram, int_enable, cycle, header, verified,
                   panic, overflow_checks, nops, div_written>>

\* The emulator is dropped and created again from the same ROM path: the
\* cartridge is the same, and <rom>.sav is the file the dropped controller
\* left there (a controller with no file attached has not touched it).
Recreate ==
    LET s == BootState(controller.cartridge_type, controller.rom_size,
                       controller.ram_size, controller.ram.file,
                       [boot_rom |-> controller.boot_rom,
                        image |-> controller.rom.image],
                       stored, header, 0, overflow_checks)
    IN /\ panic = "none"
       /\ ~controller.ram.file.failing
       /\ controller' = s.controller
       /\ ppu' = s.ppu
       /\ ram' = s.ram
       /\ io' = s.io
       /\ high_ram' = s.high_ram
       /\ int_enable' = s.int_enable
       /\ cycle' = s.cycle
       /\ header' = s.header
       /\ verified' = s.verified
       /\ panic' = s.panic
       /\ overflow_checks' = s.overflow_checks
       /\ nops' = s.nops
       /\ div_written' = s.div_written
       /\ stored' = s.stored
       /\ last' = s.last

----------------------------------------------------------------------------
(* Spec: the cartridge controller under control writes to 0x0000-0x7FFF.   *)

\* The cartridges booted: every controller family, ROMs below and above 1M,
\* RAM absent, unbanked and banked.
Cartridges ==
    {<<"Mbc1", "_64K", "NotPresent">>,
     <<"Mbc1", "_1M", "NotPresent">>,
     <<"Mbc1", "_2M", "NotPresent">>,
     <<"Mbc1Ram", "_512K", "_32K">>,
     <<"Mbc1Ram", "_512K", "_64K">>,
     <<"Mbc1RamBattery", "_2M", "_8K">>,
     <<"Mbc2", "_256K", "NotPresent">>,
     <<"Mbc2Battery", "_64K", "_2K">>,
     <<"Mbc3", "_512K", "NotPresent">>,
     <<"Mbc3RamBattery", "_1M", "_8K">>,
     <<"Mbc3TimerRamBattery", "_2M", "_32K">>,
     <<"Mbc5", "_4M", "NotPresent">>,
     <<"Mbc5Ram", "_1_5M", "_64K">>,
     <<"Mbc5RamBattery", "_8M", "_128K">>,
     <<"Rom", "_32K", "NotPresent">>,
     <<"RomRam", "_32K", "_8K">>,
     <<"RomRamBattery", "_32K", "_2K">>,
     <<"Mbc4Ram", "_128K", "_8K">>}

\* The control writes made, as <<addr, value>>: for each control range its
\* first and last address (and both values of address bit 8 below 0x4000),
\* with the bytes that exercise the register decoded there.
ControlWrites ==
    ({\h0000} \X {\h00, \h0A, \h1A, \h8A})
        \cup ({\h1FFF} \X {\h00, \h0A})
        \cup ({\h0100} \X {\h00, \h03, \h0A, \h80, \h83})
        \cup ({\h2000} \X {\h00, \h05})
        \cup ({\h2100} \X {\h00, \h01, \h05, \h20, \h83, \hE0})
        \cup ({\h2FFF, \h3000} \X {\h00, \h01, \h05})
        \cup ({\h3FFF} \X {\h00, \h1F})
        \cup ({\h4000} \X {\h00, \h01, \h02, \h03, \h05, \h08, \h0C, \h0F})
        \cup ({\h5FFF} \X {\h01, \h02})
        \cup ({\h6000} \X {\h00, \h01, \hFE})
        \cup ({\h7FFF} \X {\h00, \h01})

Init == \E cart \in Cartridges : Boot(cart[1], cart[2], cart[3])

ControlWrite == \E w \in ControlWrites : Write8(w[1], w[2], FALSE)

Next == ControlWrite

Spec == Init /\ [][Next]_vars

----------------------------------------------------------------------------
(* SpecData: stores to 0xA000-0xBFFF, between writes to the registers that *)
(* gate and route them (RAM enable, RAM bank / RTC select, mode / latch).  *)

\* At most this many stores reach cartridge RAM or the RTC in a behaviour.
MaxDataWrites == 2

DataCartridges ==
    {<<"Mbc1Ram", "_512K", "_32K">>,
     <<"Mbc1Ram", "_256K", "_2K">>,
     <<"Mbc1RamBattery", "_2M", "_8K">>,
     <<"Mbc2Battery", "_64K", "_2K">>,
     <<"Mbc3RamBattery", "_1M", "_8K">>,
     <<"Mbc3TimerRamBattery", "_2M", "_32K">>,
     <<"Mbc3TimerBattery", "_512K", "NotPresent">>,
     <<"Mbc5Ram", "_1_5M", "_64K">>,
     <<"Mbc5", "_4M", "NotPresent">>,
     <<"RomRam", "_32K", "_8K">>,
     <<"RomRamBattery", "_32K", "_2K">>}

\* The register writes made, as <<addr, value>>.
GateWrites ==
    ({\h0000} \X {\h00, \h0A})
        \cup ({\h4000} \X {\h00, \h03, \h08})
        \cup ({\h6000} \X {\h00, \h01})

\* The byte stored to 0xA000-0xBFFF; every cell starts as 0.
DataBytes == {\h42}

InitData == \E cart \in DataCartridges : Boot(cart[1], cart[2], cart[3])

GateWrite == \E w \in GateWrites : Write8(w[1], w[2], FALSE)

DataWrite ==
    /\ controller.ram_enable => nops < MaxDataWrites
    /\ \E addr \in RamAddrs, value \in DataBytes :
           Write8(addr, value, controller.ram_enable)

NextData == GateWrite \/ DataWrite

SpecData == InitData /\ [][NextData]_vars

----------------------------------------------------------------------------
(* SpecTimer: Timer::step between writes to the timer registers.           *)

\* At most this many calls of Timer::step in a behaviour.
MaxTimerSteps == 3

\* The absolute cycle at which a behaviour starts: at boot, a few cycles
\* before DIV ticks for the first time, and before the u8 DIV wraps.
TimerStarts == {0, 248, 65528}

\* Cycles an instruction takes.
StepCycles == {4, 12}

\* The register writes made, as <<addr, value>>.
TimerWrites ==
    ({\hFF04} \X {\h00, \h55})
        \cup ({\hFF05} \X {\hFF})
        \cup ({\hFF06} \X {\h80})
        \cup ({\hFF07} \X {\h00, \h05, \h07})

InitTimer ==
    \E start \in TimerStarts, checked \in BOOLEAN :
        BootAt("Rom", "_32K", "NotPresent", NoFile, PlainCartridge, <<>>,
               PlainHeader("Rom", "_32K", "NotPresent"), start, checked)

TimerWrite == \E w \in TimerWrites : Write8(w[1], w[2], FALSE)

TimerTick ==
    /\ nops < MaxTimerSteps
    /\ \E elapsed \in StepCycles : TimerStep(elapsed)

NextTimer == TimerWrite \/ TimerTick

SpecTimer == InitTimer /\ [][NextTimer]_vars

----------------------------------------------------------------------------
(* SpecBus: byte and word writes across the regions of the bus.            *)

\* At most this many bus writes in a behaviour.
MaxBusWrites == 2

BusCartridges ==
    {<<"Mbc1RamBattery", "_2M", "_8K">>,
     <<"Mbc2Battery", "_256K", "NotPresent">>,
     <<"Mbc3TimerRamBattery", "_1M", "_32K">>,
     <<"Mbc5Ram", "_1M", "_8K">>}

\* The byte writes made, as <<addr, value>>.
BusWrites8 ==
    {<<\h0000, \h0A>>, <<\h4000, \h08>>, <<\hA000, \h42>>, <<\hC000, \h99>>,
     <<\hFF4F, \h01>>, <<\hFF70, \h02>>}

\* The word writes made, as <<addr, value>>: inside a region and across the
\* boundary of two, the two bytes of every value different.
BusWrites16 ==
    {<<\h1FFF, \h050A>>, <<\h3FFF, \h0203>>, <<\h5FFF, \h0102>>,
     <<\h7FFF, \h4201>>, <<\h9FFF, \h1234>>, <<\hBFFF, \h5678>>,
     <<\hCFFF, \h9ABC>>, <<\hDFFF, \h0011>>, <<\hFE9F, \h0077>>,
     <<\hFF04, \h0355>>, <<\hFF40, \h4891>>, <<\hFF4F, \h0201>>,
     <<\hFF68, \h7780>>, <<\hFFFE, \h1F2E>>, <<\hFFFF, \h0A01>>}

InitBus ==
    \E cart \in BusCartridges, checked \in BOOLEAN :
        BootAt(cart[1], cart[2], cart[3], NoFile, PlainCartridge, <<>>,
               PlainHeader(cart[1], cart[2], cart[3]), 0, checked)

BusWrite8 ==
    /\ nops < MaxBusWrites
    /\ \E w \in BusWrites8 : Write8(w[1], w[2], TRUE)

BusWrite16 ==
    /\ nops < MaxBusWrites
    /\ \E w \in BusWrites16 : Write16(w[1], w[2], TRUE)

NextBus == BusWrite8 \/ BusWrite16

SpecBus == InitBus /\ [][NextBus]_vars

----------------------------------------------------------------------------
(* SpecHeader: Cartridge::verify_header_checksum on the headers of ROM      *)
(* images of several types, titles, versions and checksum bytes.            *)

HeaderCartridges ==
    {<<"Rom", "_32K", "NotPresent">>,
     <<"Mbc1RamBattery", "_2M", "_8K">>,
     <<"HuC1RamBattery", "_1_5M", "_64K">>}

\* First title bytes and mask ROM versions of the images.
HeaderTitles == {\h00, \h01, \h5A, \hFF}
HeaderVersions == {\h00, \h7F}

InitHeader ==
    \E cart \in HeaderCartridges, title \in HeaderTitles,
       version \in HeaderVersions, checksum \in 0..255 :
        BootAt(cart[1], cart[2], cart[3], NoFile, PlainCartridge, <<>>,
               Cartridge_header(cart[1], cart[2], cart[3], title, version,
                                checksum),
               0, FALSE)

NextHeader == Verify

SpecHeader == InitHeader /\ [][NextHeader]_vars

----------------------------------------------------------------------------
(* SpecSave: battery-backed cartridge RAM across re-creations of the       *)
(* emulator, started with nothing or with a file of some length and        *)
(* contents at <rom>.sav.                                                  *)

\* Battery-backed cartridges with unbanked, banked and no RAM, and one
\* without a battery.
SaveCartridges ==
    {<<"Mbc1RamBattery", "_2M", "_8K">>,
     <<"Mbc1RamBattery", "_64K", "NotPresent">>,
     <<"Mbc1RamBattery", "_512K", "_32K">>,
     <<"Mbc3RamBattery", "_1M", "_8K">>,
     <<"Mbc1Ram", "_512K", "_8K">>}

\* A file of len bytes: all zero for seed 0, else byte i is (seed + i) % 256.
SaveFile(len, seed) ==
    [some |-> TRUE, len |-> len, failing |-> FALSE,
     data |-> [i \in SaveCells(len) |->
                   IF seed = 0 THEN 0 ELSE (seed + i) % 256]]

\* What is at <rom>.sav before the first start: nothing, or a file shorter
\* than, as long as or longer than the RAM, zero or not.
SaveFiles ==
    {NoFile} \cup {SaveFile(len, seed) : len \in {\h800, \h2000, \h8000},
                                         seed \in {\h00, \h5A}}

\* RAM enable and RAM bank select
SaveGateWrites == ({\h0000} \X {\h00, \h0A}) \cup ({\h4000} \X {\h00, \h01})

\* The stores made to cartridge RAM space
SaveDataWrites == {\hA000, \hBFFF} \X {\h17, \h42}

InitSave ==
    \E cart \in SaveCartridges, save \in SaveFiles :
        BootAt(cart[1], cart[2], cart[3], save, PlainCartridge, <<>>,
               PlainHeader(cart[1], cart[2], cart[3]), 0, FALSE)

SaveGateWrite == \E w \in SaveGateWrites : Write8(w[1], w[2], FALSE)

SaveDataWrite == \E w \in SaveDataWrites : Write8(w[1], w[2], FALSE)

NextSave ==
    SaveGateWrite \/ SaveDataWrite \/ Recreate \/ SaveFileFault \/ LoadState

SpecSave == InitSave /\ [][NextSave]_vars

----------------------------------------------------------------------------
(* SpecReset: Controller::reset between writes to the cartridge's          *)
(* registers and RAM.                                                      *)

\* At most this many writes are made in a behaviour.
MaxResetWrites == 4

ResetCartridges ==
    {<<"Mbc1Ram", "_2M", "_8K">>,
     <<"Mbc1RamBattery", "_512K", "_32K">>,
     <<"Mbc3TimerRamBattery", "_1M", "_32K">>,
     <<"Mbc5Ram", "_1M", "_64K">>,
     <<"Mbc5", "_1M", "NotPresent">>}

\* The writes made, as <<addr, value>>: RAM enable, ROM bank, RAM bank or
\* RTC select, banking mode, and a byte of RAM.
ResetWrites ==
    ({\h0000} \X {\h0A})
        \cup ({\h2000} \X {\h02})
        \cup ({\h4000} \X {\h01, \h08})
        \cup ({\h6000} \X {\h01})
        \cup ({\hA000} \X {\h42})

InitReset == \E cart \in ResetCartridges : Boot(cart[1], cart[2], cart[3])

ResetWrite ==
    /\ nops < MaxResetWrites
    /\ \E w \in ResetWrites : Write8(w[1], w[2], TRUE)

NextReset == ResetWrite \/ Reset

SpecReset == InitReset /\ [][NextReset]_vars

----------------------------------------------------------------------------
(* SpecPpu: Ppu::update between writes to the PPU registers.               *)

\* At most this many calls of Ppu::update in a behaviour.
MaxPpuSteps == 3

\* The absolute cycle at which a behaviour starts: at boot, and a few cycles
\* before line 144 (V-blank), before line 154 and before line 256.
PpuStarts == {0, 65640, 70200, 116712}

\* Cycles between two calls of Ppu::update.
PpuStepCycles == {24, 80}

\* The duration of a CPU cycle the caller gives, in ns: one dot.
CycleTimes == {238}

\* The register writes made, as <<addr, value>>: STAT, LYC, BCPS and BCPD.
PpuWrites ==
    ({\hFF41} \X {\h00, \h01, \h10})
        \cup ({\hFF45} \X {\h90})
        \cup ({\hFF68} \X {\h00, \h80, \h81, \hBF})
        \cup ({\hFF69} \X {\h11})

InitPpu ==
    \E start \in PpuStarts :
        BootAt("Rom", "_32K", "NotPresent", NoFile, PlainCartridge, <<>>,
               PlainHeader("Rom", "_32K", "NotPresent"), start, FALSE)

PpuWrite == \E w \in PpuWrites : Write8(w[1], w[2], FALSE)

PpuTick ==
    /\ nops < MaxPpuSteps
    /\ \E elapsed \in PpuStepCycles, cycle_time \in CycleTimes :
           PpuUpdate(elapsed, cycle_time)

NextPpu == PpuWrite \/ PpuTick

SpecPpu == InitPpu /\ [][NextPpu]_vars

----------------------------------------------------------------------------
(* SpecMap: byte writes over the memory map of a CGB with a plain 32K      *)
(* cartridge, started with or without the boot ROM.                        *)

\* At most this many stores to work RAM, echo RAM and the unusable region in
\* a behaviour.
MaxMapWrites == 2

\* The ROM files loaded; the bytes of both differ from the boot ROM's at
\* the addresses read.
RomImages == {1, 7}

\* The addresses of 0x0000-0x00FF read.
BootAddrs == {\h0000, \h00FF}

\* The addresses of echo RAM (0xE000-0xFDFF) and of the unusable region
\* (0xFEA0-0xFEFF) accessed.
EchoAddrs == {\hE000, \hF000, \hFDFF}
UnusableAddrs == {\hFEA0, \hFEFF}

\* The writes to the bank-select, boot-ROM and speed-switch (KEY1) registers,
\* as <<addr, value>>.
MapRegisterWrites ==
    ({WorkRam_BANK_SELECT_ADDR} \X {\h00, \h01, \h02, \h07, \h0A})
        \cup ({Vram_BANK_SELECT_ADDR} \X {\h00, \h01, \h02, \hFF})
        \cup ({\hFF50} \X {\h00, \h01})
        \cup ({\hFF4D} \X {\h00, \h01})

\* The byte stored; every cell starts as 0.
MapBytes == {\h42}

InitMap ==
    \E boot_rom \in BOOLEAN, image \in RomImages :
        BootAt("Rom", "_32K", "NotPresent", NoFile,
               [boot_rom |-> boot_rom, image |-> image], <<>>,
               PlainHeader("Rom", "_32K", "NotPresent"), 0, FALSE)

MapRegisterWrite == \E w \in MapRegisterWrites : Write8(w[1], w[2], FALSE)

MapDataWrite ==
    /\ nops < MaxMapWrites
    /\ \E addr \in WorkRamAddrs \cup EchoAddrs \cup UnusableAddrs,
          value \in MapBytes :
           Write8(addr, value, TRUE)

NextMap == MapRegisterWrite \/ MapDataWrite

SpecMap == InitMap /\ [][NextMap]_vars

----------------------------------------------------------------------------
(* Properties                                                              *)

\* The step just taken is a byte write to an address in lo..hi.
WroteByteIn(lo, hi) ==
    /\ last'.op = "write8"
    /\ InRange(last'.addr, lo, hi)

\* The controller is an MBC1 with a ROM of 1M or more and a RAM that is not
\* 32K: its 0x4000-0x5FFF register holds ROM bank bits.
Mbc1LargeRom ==
    /\ is_mbc1(controller.cartridge_type)
    /\ RomSizeBytes(controller.rom_size) >= RomSizeBytes("_1M")
    /\ controller.ram_size # "_32K"

\* C1: in every reachable state, on every cartridge family and size, both
\* ROM bank indices are below the number of ROM banks and, when cartridge
\* RAM is present, the RAM bank index is below the number of RAM banks.
C1_BankIndicesInRange ==
    /\ controller.rom.active_bank_0 < controller.rom.num_banks
    /\ controller.rom.active_bank_1 < controller.rom.num_banks
    /\ controller.ram.some =>
           controller.ram.active_bank < controller.ram.num_banks

\* C1 witness: a banked-RAM cartridge with the last ROM bank and the last RAM
\* bank selected.
C1_Witness ==
    /\ controller.rom.active_bank_1 = controller.rom.num_banks - 1
    /\ controller.rom.active_bank_1 > 1
    /\ controller.ram.some
    /\ controller.ram.num_banks > 1
    /\ controller.ram.active_bank = controller.ram.num_banks - 1

\* C2: on MBC1 and MBC3, right after a write of 0x00 to an address in
\* 0x2000-0x3FFF the bank mapped at 0x4000-0x7FFF is 1, and that bank is
\* never 0 in a reachable state.
C2_ZeroSelectsBankOne ==
    (is_mbc1(controller.cartridge_type) \/ is_mbc3(controller.cartridge_type))
        => /\ controller.rom.active_bank_1 # 0
           /\ (last.op = "write8" /\ InRange(last.addr, \h2000, \h3FFF)
                  /\ last.value = \h00)
                 => controller.rom.active_bank_1 = 1

\* C2 witness: an MBC1 whose upper bank bits had been set, after a write of
\* 0x00 to 0x2100.
C2_Witness ==
    /\ is_mbc1(controller.cartridge_type)
    /\ controller.ram_rom_bank # 0
    /\ last = [op |-> "write8", addr |-> \h2100, value |-> \h00]
    /\ controller.rom.active_bank_1 = 1

\* C3: while ram_enable is false, a write to an address in 0xA000-0xBFFF
\* changes neither cartridge RAM nor the RTC, and every read of the range
\* returns what it returned before the write.
C3_DisabledRamWriteIsNoOp ==
    [][(~controller.ram_enable /\ WroteByteIn(Ram_BASE_ADDR, Ram_LAST_ADDR))
          => /\ controller'.ram = controller.ram
             /\ controller'.rtc = controller.rtc
             /\ \A addr \in RamAddrs :
                    Controller_read_ram(controller', addr)
                        = Controller_read_ram(controller, addr)]_vars

\* C3 witness: a write to 0xA000 made with RAM disabled, on a RAM that holds
\* a byte stored earlier.
C3_Witness ==
    /\ ~controller.ram_enable
    /\ last.op = "write8"
    /\ last.addr = \hA000
    /\ controller.ram.some
    /\ \E i \in DOMAIN controller.ram.data : controller.ram.data[i] # 0

\* C4: after a write to 0xFF04, DIV reads 0 until 256 cycles have elapsed
\* since the write, timer steps in between included.
C4_DivStaysZeroFor256Cycles ==
    (div_written >= 0 /\ cycle - div_written < 256)
        => Timer_read(io.timer, \hFF04) = 0

\* The byte write of the low byte at addr, then of the high byte at addr+1.
TwoByteWrites(b, addr, value) ==
    LET r1 == MemoryBus_write(b, addr, BitAnd(value, \hFF))
    IN IF r1.panic # "none" THEN r1
       ELSE MemoryBus_write(r1.st, addr + 1, value \div 256)

\* C5: for every addr in 0x0000..=0xFFFE, a word write of v at addr leaves
\* the whole bus as the byte write of (v & 0xFF) at addr followed by the
\* byte write of (v >> 8) at addr+1 leaves it.
C5_WordWriteIsTwoByteWrites ==
    [][(last'.op = "write16" /\ last'.addr <= \hFFFE)
          => /\ Bus' = TwoByteWrites(Bus, last'.addr, last'.value).st
             /\ panic' = TwoByteWrites(Bus, last'.addr, last'.value).panic]_vars

\* C5 witness: the word 0x050A written at 0x1FFF of an MBC1 has enabled
\* the RAM with its low byte and selected bank 5 with its high byte.
C5_Witness ==
    /\ is_mbc1(controller.cartridge_type)
    /\ last = [op |-> "write16", addr |-> \h1FFF, value |-> \h050A]
    /\ controller.ram_enable
    /\ controller.rom.active_bank_1 = 5

RECURSIVE SumOfComplements(_, _, _)
\* The sum over header bytes i..hi of (-b - 1), as an integer.
SumOfComplements(h, i, hi) ==
    IF i > hi THEN 0 ELSE (0 - h[i] - 1) + SumOfComplements(h, i + 1, hi)

\* The header's byte 0x4D is the sum over bytes 0x34..=0x4C of (-b - 1)
\* modulo 256.
Conforming(h) == h[\h4D] = SumOfComplements(h, \h34, \h4C) % 256

\* C6: verify_header_checksum returns true exactly for the headers whose
\* byte 0x4D is the sum over bytes 0x34..=0x4C of (-b - 1) modulo 256.
C6_ChecksumVerifies ==
    verified.done => (verified.ok <=> Conforming(header))

\* C6 witness: a titled header with a nonzero version found conforming.
C6_Witness ==
    /\ verified.done
    /\ verified.ok
    /\ header[\h34] = \hFF
    /\ header[\h4C] # 0

\* The value v' of C7: v & 0x1F with 0 replaced by 1.
LowFive(v) == IF BitAnd(v, \h1F) = 0 THEN 1 ELSE BitAnd(v, \h1F)

\* C7: on MBC1, a write of v to 0x2000-0x3FFF sets the bank mapped at
\* 0x4000-0x7FFF to (bank & 0x60) | v', keeping the two upper bank bits.
C7_Mbc1LowWriteKeepsUpperBits ==
    [][(is_mbc1(controller.cartridge_type) /\ WroteByteIn(\h2000, \h3FFF)
           /\ panic' = "none")
          => controller'.rom.active_bank_1 =
                 BitOr(BitAnd(controller.rom.active_bank_1, \h60),
                       LowFive(last'.value))]_vars

\* C8: on an MBC1 with ROM >= 1M and RAM != 32K in simple mode, a write of
\* v to 0x4000-0x5FFF sets the bank mapped at 0x4000-0x7FFF to
\* (bank & 0x1F) | ((v & 3) << 5), replacing bits 5-6.
C8_Mbc1SimpleModeReplacesUpperBits ==
    [][(Mbc1LargeRom /\ ~controller.banking_mode /\ WroteByteIn(\h4000, \h5FFF)
           /\ panic' = "none")
          => controller'.rom.active_bank_1 =
                 BitOr(BitAnd(controller.rom.active_bank_1, \h1F),
                       Shl(BitAnd(last'.value, 3), 5, 16))]_vars

\* C9: on an MBC1 with ROM >= 1M and RAM != 32K in advanced mode, a write
\* of v to 0x4000-0x5FFF sets the bank mapped at 0x0000-0x3FFF to
\* (v & 3) * 0x20, whatever v and the ROM size.
C9_Mbc1AdvancedModeSelectsBankLow ==
    [][(Mbc1LargeRom /\ controller.banking_mode /\ WroteByteIn(\h4000, \h5FFF))
          => controller'.rom.active_bank_0 = BitAnd(last'.value, 3) * \h20]_vars

\* C10: on MBC1 in simple mode the bank mapped at 0x0000-0x3FFF is 0 and
\* the RAM bank the CPU sees is bank 0.
C10_Mbc1SimpleModeLocksBankZero ==
    (is_mbc1(controller.cartridge_type) /\ ~controller.banking_mode)
        => /\ controller.rom.active_bank_0 = 0
           /\ controller.ram.some => controller.ram.active_bank = 0

\* An MBC1 cartridge with RAM < 32K and ROM < 1M.
Mbc1Small ==
    /\ is_mbc1(controller.cartridge_type)
    /\ RamSizeBytes(controller.ram_size) < RamSizeBytes("_32K")
    /\ RomSizeBytes(controller.rom_size) < RomSizeBytes("_1M")

\* C11: on an MBC1 cartridge with RAM < 32K and ROM < 1M a write to
\* 0x6000-0x7FFF changes no controller state; on every other MBC1
\* cartridge it sets banking_mode to ((v & 1) != 0).
C11_Mbc1ModeSelect ==
    [][(is_mbc1(controller.cartridge_type) /\ WroteByteIn(\h6000, \h7FFF))
          => /\ panic' = "none"
             /\ IF Mbc1Small
                THEN controller' = controller /\ ~controller'.banking_mode
                ELSE controller'.banking_mode = (BitAnd(last'.value, 1) # 0)]_vars

\* C11 witness: a small MBC1 cartridge still in simple mode after 0x01 was
\* written to 0x6000.
C11_Witness ==
    /\ Mbc1Small
    /\ last.op = "write8" /\ last.addr = \h6000 /\ last.value = \h01
    /\ ~controller.banking_mode

\* C12: on MBC1, ram_rom_bank is 0 until a write to 0x4000-0x5FFF, is
\* (v & 3) after each such write of v and is changed by no other write;
\* and a write to 0x6000-0x7FFF that switches into advanced mode while
\* ram_enable is set and RAM >= 32K makes the RAM active bank ram_rom_bank
\* masked to the number of RAM banks.
C12_Mbc1SecondaryRegister ==
    /\ (last.op = "boot" => controller.ram_rom_bank = 0)
    /\ [][(is_mbc1(controller.cartridge_type) /\ panic' = "none")
            => /\ controller'.ram_rom_bank =
                      IF WroteByteIn(\h4000, \h5FFF)
                      THEN BitAnd(last'.value, 3)
                      ELSE controller.ram_rom_bank
               /\ (/\ WroteByteIn(\h6000, \h7FFF)
                   /\ ~controller.banking_mode /\ controller'.banking_mode
                   /\ controller.ram_enable
                   /\ RamSizeBytes(controller.ram_size) >= RamSizeBytes("_32K"))
                  => controller'.ram.active_bank =
                         BitAnd(controller.ram_rom_bank,
                                controller.ram.num_banks - 1)]_vars

\* C12 witness: an MBC1 cartridge with 64K of RAM whose RAM bank became the
\* stored 3 at the switch into advanced mode.
C12_Witness ==
    /\ is_mbc1(controller.cartridge_type)
    /\ controller.ram_size = "_64K"
    /\ last.op = "write8" /\ last.addr = \h6000 /\ last.value = \h01
    /\ controller.ram_enable /\ controller.banking_mode
    /\ controller.ram_rom_bank = 3
    /\ controller.ram.active_bank = 3

\* Bit 8 of the address of the byte write just made.
AddrBit8 == (last'.addr \div 256) % 2

\* The value of C13: v & 0x0F with 0 replaced by 1.
LowFour(v) == IF BitAnd(v, \h0F) = 0 THEN 1 ELSE BitAnd(v, \h0F)

\* C13: on MBC2, a write of any byte v to an address in 0x0000-0x3FFF whose
\* address bit 8 is 1 sets the bank mapped at 0x4000-0x7FFF to v & 0x0F,
\* with 0 replaced by 1.
C13_Mbc2BankSelect ==
    [][(is_mbc2(controller.cartridge_type) /\ WroteByteIn(\h0000, \h3FFF)
           /\ AddrBit8 = 1 /\ panic' = "none")
          => controller'.rom.active_bank_1 = LowFour(last'.value)]_vars

\* C14: on MBC2, a write of v to an address in 0x0000-0x3FFF whose address
\* bit 8 is 0 sets ram_enable to ((v & 0x0F) = 0x0A) and leaves the bank
\* mapped at 0x4000-0x7FFF unchanged.
C14_Mbc2RamEnable ==
    [][(is_mbc2(controller.cartridge_type) /\ WroteByteIn(\h0000, \h3FFF)
           /\ AddrBit8 = 0)
          => /\ controller'.ram_enable = (BitAnd(last'.value, \h0F) = \h0A)
             /\ controller'.rom.active_bank_1 = controller.rom.active_bank_1]_vars

\* C15: on MBC3, a write of v to 0x4000-0x5FFF acts on w = v & 0x0F: w in
\* 0..=3 selects RAM bank w and clears rtc_active, w in 8..=0xC selects RTC
\* register w and sets rtc_active, and every other w leaves the controller
\* unchanged without a fault.
C15_Mbc3SecondaryRegister ==
    [][(is_mbc3(controller.cartridge_type) /\ WroteByteIn(\h4000, \h5FFF))
          => LET w == BitAnd(last'.value, \h0F)
             IN IF InRange(w, \h0, \h3)
                THEN controller.ram.some
                         => /\ controller'.ram.active_bank =
                                   BitAnd(w, controller.ram.num_banks - 1)
                            /\ ~controller'.rtc_active
                ELSE IF InRange(w, \h8, \hC)
                THEN controller.rtc.some
                         => /\ controller'.rtc.selected = w
                            /\ controller'.rtc_active
                ELSE controller' = controller /\ panic' = "none"]_vars

\* C16: on MBC5 the bank mapped at 0x4000-0x7FFF is ((b & 1) << 8) | a for
\* the last bytes a, b written to 0x2000-0x2FFF and 0x3000-0x3FFF: a write
\* to 0x2000-0x2FFF replaces bits 0-7 and keeps bit 8, a write to
\* 0x3000-0x3FFF replaces bit 8 and keeps bits 0-7.
C16_Mbc5BankRegisters ==
    [][(is_mbc5(controller.cartridge_type) /\ panic' = "none")
          => /\ WroteByteIn(\h2000, \h2FFF)
                    => controller'.rom.active_bank_1 =
                           BitOr(BitAnd(controller.rom.active_bank_1, \h100),
                                 last'.value)
             /\ WroteByteIn(\h3000, \h3FFF)
                    => controller'.rom.active_bank_1 =
                           BitOr(BitAnd(controller.rom.active_bank_1, \hFF),
                                 Shl(BitAnd(last'.value, 1), 8, 16))]_vars

\* The byte C17 gives for a read of cartridge RAM space.
OpenBusRead(c, addr) ==
    IF c.rtc_active THEN [value |-> Rtc_read(c.rtc), panic |-> "none"]
    ELSE IF c.ram.some /\ c.ram_enable THEN Ram_read(c.ram, addr)
    ELSE [value |-> \hFF, panic |-> "none"]

\* C17: a controller read at 0xA000-0xBFFF returns the selected RTC register
\* when rtc_active, else the cartridge-RAM byte when RAM is present and
\* ram_enable is set, else 0xFF without a fault.
C17_ReadOfAbsentOrDisabledRam ==
    \A addr \in RamAddrs :
        Controller_read_ram(controller, addr) = OpenBusRead(controller, addr)

\* C18: on Rom, RomRam and RomRamBattery cartridges a write to 0x0000-0x7FFF
\* leaves the controller unchanged, and with RAM present a write of v to an
\* address of the RAM in 0xA000-0xBFFF is stored: a read of the address
\* then returns v.
C18_PlainCartridgeWrites ==
    [][is_none(controller.cartridge_type)
          => /\ WroteByteIn(\h0000, \h7FFF) => controller' = controller
             /\ (/\ WroteByteIn(\hA000, \hBFFF)
                 /\ controller.ram.some
                 /\ Ram_index(controller.ram, last'.addr) < controller.ram.len)
                    => Controller_read_ram(controller', last'.addr) =
                           [value |-> last'.value, panic |-> "none"]]_vars

\* The byte a controller read of addr returns once RAM bank `bank` is
\* selected.
ReadInBank(c, bank, addr) ==
    Controller_read_ram([c EXCEPT !.ram = Ram_set_bank(c.ram, bank)], addr)

\* C19 as stated: on a battery-backed cartridge a byte written to an address
\* in 0xA000-0xBFFF is returned by a read of the same address, same RAM
\* bank, after the controller is re-created from the same ROM path.
C19_WrittenByteSurvives ==
    [][(/\ last'.op = "boot"
        /\ is_battery_backed(controller.cartridge_type)
        /\ last.op = "write8"
        /\ InRange(last.addr, Ram_BASE_ADDR, Ram_LAST_ADDR))
          => ReadInBank(controller', controller.ram.active_bank, last.addr) =
                 [value |-> last.value, panic |-> "none"]]_vars

\* C19 amended: on a battery-backed cartridge every byte written to an
\* address in 0xA000-0xBFFF while the RAM was present, enabled and selected
\* is returned by a read of the same address in the same RAM bank after the
\* controller is re-created from the same ROM path, unless written over.
C19_BatteryRoundTrip ==
    [][(last'.op = "boot" /\ is_battery_backed(controller.cartridge_type))
          => \A bank \in 0..(controller.ram.num_banks - 1), addr \in RamAddrs :
                 LET i == bank * Ram_BANK_SIZE + (addr - Ram_BASE_ADDR)
                 IN i \in DOMAIN stored
                        => ReadInBank(controller', bank, addr) =
                               [value |-> stored[i], panic |-> "none"]]_vars

\* C19 witness: an MBC1+RAM+battery cartridge re-created after 0x42 was
\* stored at 0xA000 in bank 1, reading 0x42 there.
C19_Witness ==
    /\ last.op = "boot"
    /\ controller.cartridge_type = "Mbc1RamBattery"
    /\ Ram_BANK_SIZE \in DOMAIN stored
    /\ stored[Ram_BANK_SIZE] = \h42
    /\ ReadInBank(controller, 1, \hA000).value = \h42

\* C20: when the controller is created with a battery, the RAM holds the
\* save file's bytes if the file found was ram_size bytes long; otherwise
\* the RAM is all zero and the save file is ram_size bytes long and all
\* zero, whatever was found.
C20_SaveFileLoad ==
    (last.op = "boot" /\ controller.ram.file.some)
        => IF last.save.some /\ last.save.len = controller.ram.len
           THEN controller.ram.data = last.save.data
           ELSE /\ \A i \in DOMAIN controller.ram.data :
                       controller.ram.data[i] = 0
                /\ controller.ram.file.len = controller.ram.len
                /\ \A i \in DOMAIN controller.ram.file.data :
                       controller.ram.file.data[i] = 0

\* C21: with a file attached to the cartridge RAM, the save file is
\* ram_size bytes long and byte i of the file equals byte i of the RAM for
\* every i, after any writes and bank switches.
C21_SaveFileMirrorsRam ==
    controller.ram.file.some
        => /\ controller.ram.file.len = controller.ram.len
           /\ \A i \in DOMAIN controller.ram.data :
                  controller.ram.file.data[i] = controller.ram.data[i]

\* C22: when the write-through to the save file fails during a write to
\* cartridge RAM, the byte is still stored in memory and the emulation is
\* not aborted (the failure is a result the caller handles).
C22_WriteThroughFailureSurfaces ==
    [][(/\ WroteByteIn(Ram_BASE_ADDR, Ram_LAST_ADDR)
        /\ RamStore(controller, last'.addr)
        /\ controller.ram.file.some /\ controller.ram.file.failing)
          => /\ controller'.ram.data[Ram_index(controller.ram, last'.addr)] =
                    last'.value
             /\ panic' = "none"]_vars

\* C23: creating or loading a controller of a battery-backed type without
\* RAM, or of an RTC type without RTC, returns an InvalidState error: it
\* neither succeeds nor aborts.
C23_MissingStoreIsInvalidState ==
    (/\ last.op \in {"boot", "load"}
     /\ \/ is_battery_backed(controller.cartridge_type) /\ ~controller.ram.some
        \/ is_rtc(controller.cartridge_type) /\ ~controller.rtc.some)
        => panic = "none" /\ last.result = "InvalidState"

----------------------------------------------------------------------------
(* C24: a bus read at an address of 0xA000-0xBFFF returns exactly what the *)
(* controller's read returns for that address: the selected RTC register   *)
(* while rtc_active, the cartridge RAM otherwise.                          *)
C24_BusReadIsControllerRead ==
    panic = "none" =>
        \A addr \in RamAddrs :
            MemoryBus_read(Bus, addr) = Controller_read_ram(controller, addr)

----------------------------------------------------------------------------
(* C25: echo RAM.  A bus read of an address a of 0xE000-0xFDFF returns the *)
(* work RAM byte at a - 0x2000, and a byte written to a is the byte then   *)
(* read at a - 0x2000.                                                     *)
C25_EchoRamMirrorsWorkRam ==
    /\ [](panic = "none" =>
              \A a \in EchoAddrs :
                  MemoryBus_read(Bus, a) = MemoryBus_read(Bus, a - \h2000))
    /\ [][\A a \in EchoAddrs :
              (WroteByteIn(\hE000, \hFDFF) /\ last'.addr = a) =>
                  /\ panic' = "none"
                  /\ MemoryBus_read(Bus, a - \h2000)' = Value(last'.value)]_vars

----------------------------------------------------------------------------
(* C26: the unusable region.  A bus read of an address of 0xFEA0-0xFEFF    *)
(* returns 0xFF, a bus write to it changes nothing, and neither panics.    *)
C26_UnusableRegionIsInert ==
    /\ [](panic = "none" =>
              \A a \in UnusableAddrs : MemoryBus_read(Bus, a) = Value(\hFF))
    /\ [][WroteByteIn(\hFEA0, \hFEFF) =>
              panic' = "none" /\ Bus' = Bus]_vars

----------------------------------------------------------------------------
(* C27: the boot ROM mapping.  With a boot ROM present, bus reads of       *)
(* 0x0000-0x00FF return the boot ROM's bytes until software writes 0xFF50; *)
(* after a nonzero write to 0xFF50 they return the cartridge's bank 0, and *)
(* no later write to 0xFF50, a 0 included, clears the disabled state.      *)
C27_BootRomMapping ==
    /\ [](panic = "none" /\ controller.boot_rom /\ last.op = "boot" =>
              \A a \in BootAddrs :
                  MemoryBus_read(Bus, a) = Value(BootRom_read(a)))
    /\ [][(WroteByteIn(\hFF50, \hFF50) /\ last'.value # 0) =>
              \A a \in BootAddrs :
                  MemoryBus_read(Bus, a)' = Rom_read(controller.rom, a)']_vars
    /\ [][io.disable_boot_rom # 0 => io'.disable_boot_rom # 0]_vars

----------------------------------------------------------------------------
(* C28: the work RAM bank select.  The switchable bank is in 1..7 in every *)
(* state, the initial one included, and a write of v to 0xFF70 leaves      *)
(* active_bank = max(1, v & 0x07): a written 0 selects bank 1.             *)
C28_WorkRamBankInOneToSeven ==
    /\ [](panic = "none" => ram.active_bank \in 1..7)
    /\ [][WroteByteIn(WorkRam_BANK_SELECT_ADDR, WorkRam_BANK_SELECT_ADDR) =>
              /\ panic' = "none"
              /\ ram'.active_bank = IF BitAnd(last'.value, \h07) = 0 THEN 1
                                    ELSE BitAnd(last'.value, \h07)]_vars

----------------------------------------------------------------------------
(* C29: work RAM addressing.  A byte written at 0xC000+k lands at offset k *)
(* of the store and one written at 0xD000+k at offset active_bank * 4096   *)
(* + k, which is inside the 32 KiB store for every bank up to 7; the byte  *)
(* is read back at the same address.  Stated for the banks 1..7 that C28   *)
(* allows.                                                                 *)
C29_WorkRamTargetsActiveBank ==
    [][\A a \in WorkRamAddrs :
          (/\ WroteByteIn(WorkRam_BASE_ADDR, WorkRam_LAST_ADDR)
           /\ last'.addr = a
           /\ ram.active_bank \in 1..7) =>
              /\ panic' = "none"
              /\ ram'.data[IF a < \hD000 THEN a - \hC000
                           ELSE ram.active_bank * WorkRam_BANK_SIZE + (a - \hD000)]
                     = last'.value
              /\ MemoryBus_read(Bus, a)' = Value(last'.value)]_vars

----------------------------------------------------------------------------
(* C30: the VRAM bank select.  A bus write of any byte v to 0xFF4F sets    *)
(* the VRAM's active_bank to v & 1 without panicking, and a bus read of    *)
(* 0xFF4F returns active_bank | 0xFE.                                      *)
C30_VramBankSelect ==
    /\ [](panic = "none" =>
              MemoryBus_read(Bus, Vram_BANK_SELECT_ADDR)
                  = Value(BitOr(ppu.vram.active_bank, \hFE)))
    /\ [][WroteByteIn(Vram_BANK_SELECT_ADDR, Vram_BANK_SELECT_ADDR) =>
              /\ panic' = "none"
              /\ ppu'.vram.active_bank = BitAnd(last'.value, \h01)]_vars

----------------------------------------------------------------------------
(* C31: the TIMA tick.  A timer step at absolute cycle c with TAC bit 2    *)
(* set does not panic, whatever c, and increments TIMA exactly when        *)
(* c - last_tima_cycle >= rate (1024, 16, 64, 256 for TAC bits 1:0 = 0, 1, *)
(* 2, 3); TIMA advances once per rate cycles, so two steps in a row both   *)
(* tick only when rate cycles lie between them.                            *)
TimerRate(tac) ==
    CASE BitAnd(tac, \h3) = 0 -> 1024
      [] BitAnd(tac, \h3) = 1 -> 16
      [] BitAnd(tac, \h3) = 2 -> 64
      [] BitAnd(tac, \h3) = 3 -> 256

C31_TimaTicksOncePerRate ==
    [][(last'.op = "step" /\ Timer_enabled(io.timer)) =>
          /\ panic' = "none"
          /\ last'.tick <=>
                 (cycle' - io.timer.last_tima_cycle >= TimerRate(io.timer.tac))
          /\ (last.op = "step" /\ last.tick /\ last'.tick) =>
                 last'.value >= TimerRate(io.timer.tac)]_vars

----------------------------------------------------------------------------
(* C32: after every PPU status update LY = (dot / 456) mod 154, where      *)
(* dot = cycle / (cycle_time_ns / 238); LY is in 0..153 whatever the       *)
(* absolute cycle.                                                         *)
C32_LyIsLineMod154 ==
    [][last'.op = "update" =>
          /\ panic' = "none"
          /\ ppu'.ly = ((cycle' \div (last'.cycle_time \div 238)) \div 456) % 154
          /\ ppu'.ly \in 0..153]_vars

----------------------------------------------------------------------------
(* C33: the V-blank interrupt.  Whatever registers software writes between *)
(* the updates (STAT included), Ppu::update reports a V-blank interrupt    *)
(* exactly on the updates that take the PPU from a mode other than Vblank  *)
(* into Vblank: once per frame, never again while the PPU stays in Vblank. *)
(* Stated within the first frame, where the line is below 154.             *)
InVblank(c, cycle_time) ==
    (c \div (cycle_time \div 238)) \div 456 >= 144

\* Before the first update the mode is the Hblank of Ppu::new.
WasInVblank(cycle_time) ==
    nops > 0 /\ InVblank(cycle, cycle_time)

C33_VblankInterruptOncePerFrame ==
    [][(last'.op = "update" /\ cycle' < 154 * 456) =>
          (last'.vblank_interrupt <=>
               /\ ~WasInVblank(last'.cycle_time)
               /\ InVblank(cycle', last'.cycle_time))]_vars

----------------------------------------------------------------------------
(* C34: KEY1.  A write to 0xFF4D only arms the speed switch: the speed the *)
(* I/O file reports (Io::speed) is after the write what it was before, and *)
(* changes only when a STOP is executed.                                   *)
C34_Key1WriteKeepsSpeed ==
    [][WroteByteIn(\hFF4D, \hFF4D) => Io_speed(io') = Io_speed(io)]_vars

----------------------------------------------------------------------------
(* C35: ROM immutability.  No bus write, of a byte or of a word, to any    *)
(* address, changes a byte of the ROM store; a write that lies within      *)
(* 0x0000-0x7FFF changes nothing outside the controller and none of the    *)
(* cartridge RAM's bytes: only registers and bank indices.                 *)
WriteWithinRom ==
    \/ last'.op = "write8" /\ InRange(last'.addr, \h0000, \h7FFF)
    \/ last'.op = "write16" /\ InRange(last'.addr, \h0000, \h7FFE)

C35_RomBytesNeverChange ==
    [][(last'.op \in {"write8", "write16"} =>
            /\ controller'.rom.image = controller.rom.image
            /\ controller'.rom.written = controller.rom.written
            /\ \A i \in {\h0000, \h2000, \h3FFF} :
                   Rom_data(controller'.rom, i) = Rom_data(controller.rom, i))
       /\ (WriteWithinRom =>
            /\ UNCHANGED <<ppu, ram, io, high_ram, int_enable>>
            /\ controller'.ram.data = controller.ram.data)]_vars

\* A word write to 0x3FFF has switched the MBC1's ROM bank.
C35_Witness ==
    /\ last.op = "write16"
    /\ last.addr = \h3FFF
    /\ panic = "none"
    /\ controller.rom.active_bank_1 # 1

----------------------------------------------------------------------------
(* C36: a write to an address of 0x0000-0x7FFF outside the control ranges  *)
(* of the cartridge's family (0x4000-0x7FFF on MBC2, 0x6000-0x7FFF on      *)
(* MBC5, every address on the families that decode nothing) changes no     *)
(* register, no bank index and no RAM byte of the controller.              *)
OutsideControlRanges(t, addr) ==
    CASE t \in {"Mbc1", "Mbc1Ram", "Mbc1RamBattery", "Mbc3", "Mbc3Ram",
                "Mbc3RamBattery", "Mbc3TimerBattery", "Mbc3TimerRamBattery"} ->
             FALSE
      [] t \in {"Mbc2", "Mbc2Battery"} -> InRange(addr, \h4000, \h7FFF)
      [] t \in {"Mbc5", "Mbc5Ram", "Mbc5RamBattery", "Mbc5Rumble",
                "Mbc5RumbleRam", "Mbc5RumbleRamBattery"} ->
             InRange(addr, \h6000, \h7FFF)
      [] OTHER -> InRange(addr, \h0000, \h7FFF)

C36_UnlistedControlWriteIsIgnored ==
    [][(/\ last'.op = "write8"
        /\ InRange(last'.addr, \h0000, \h7FFF)
        /\ OutsideControlRanges(controller.cartridge_type, last'.addr)) =>
           /\ panic' = "none"
           /\ controller' = controller]_vars

\* An MBC5 whose registers were set has been written at 0x6000.
C36_Witness ==
    /\ last.op = "write8"
    /\ last.addr = \h6000
    /\ is_mbc5(controller.cartridge_type)
    /\ controller.ram_enable
    /\ controller.rom.active_bank_1 # 1
    /\ panic = "none"

----------------------------------------------------------------------------
(* C37: no bank-select write fails the ROM's assertion.  On every family   *)
(* and ROM size, whatever the addresses and values written, the bank given *)
(* to Rom::update_bank_0 / Rom::update_bank is below num_banks, so the     *)
(* assertion bank < num_banks never fails.                                 *)
C37_BankAssertionNeverFails ==
    panic # AssertBank

----------------------------------------------------------------------------
(* C38: cartridge-RAM addressing stays inside the store.  For every RAM    *)
(* size, every reachable active bank and every address in 0xA000-0xBFFF,   *)
(* the offset active_bank * 8192 + (addr - 0xA000) that a RAM access uses  *)
(* is below the RAM's size, so no write there indexes out of bounds (in    *)
(* particular on a 2K RAM at 0xA800-0xBFFF).                               *)
C38_RamOffsetWithinStore ==
    [][WroteByteIn(Ram_BASE_ADDR, Ram_LAST_ADDR)
           => /\ panic' # IndexOutOfBounds
              /\ (controller.ram.some /\ controller.ram_enable
                      /\ ~controller.rtc_active)
                     => Ram_index(controller.ram, last'.addr)
                            < controller.ram.len]_vars

----------------------------------------------------------------------------
(* C39: Controller::reset leaves the ROM store unchanged (its data and     *)
(* both bank indices) and resets the cartridge RAM: afterwards every RAM   *)
(* byte is 0 and the active RAM bank is 0, or the RAM is absent when the   *)
(* cartridge has none; ram_enable, banking_mode, rtc_active and            *)
(* ram_rom_bank keep the values they had before the reset.                 *)
C39_ResetKeepsRomAndClearsRam ==
    [][last'.op = "reset"
           => /\ controller'.rom = controller.rom
              /\ controller'.ram.some = (controller.ram_size # "NotPresent")
              /\ controller'.ram.some
                     => /\ controller'.ram.active_bank = 0
                        /\ controller'.ram.len
                               = RamSizeBytes(controller.ram_size)
                        /\ DOMAIN controller'.ram.data
                               = RamCells(controller.ram_size)
                        /\ \A i \in DOMAIN controller'.ram.data :
                               controller'.ram.data[i] = 0
              /\ controller'.ram_enable = controller.ram_enable
              /\ controller'.banking_mode = controller.banking_mode
              /\ controller'.rtc_active = controller.rtc_active
              /\ controller'.ram_rom_bank = controller.ram_rom_bank]_vars

\* A reset was made with the RAM enabled, a byte of it not 0 and bank 1
\* active, on a ROM whose switchable bank had been moved.
C39_Witness ==
    /\ last.op = "reset"
    /\ last.dirty
    /\ last.bank = 1
    /\ controller.ram_enable
    /\ controller.rom.active_bank_1 # 1
    /\ controller.ram.some

----------------------------------------------------------------------------
(* C40: palette index auto-increment.  When bit 7 of BCPS (0xFF68) is set, *)
(* a write to BCPD (0xFF69) advances the 6-bit palette index in bits 0-5   *)
(* of BCPS by one, wrapping from 0x3F to 0x00; when bit 7 is clear, BCPS   *)
(* is unchanged by the write.                                              *)
C40_PaletteIndexAutoIncrement ==
    [][WroteByteIn(\hFF69, \hFF69)
           => IF BitAnd(ppu.bcps, \h80) # 0
              THEN BitAnd(ppu'.bcps, \h3F)
                       = (BitAnd(ppu.bcps, \h3F) + 1) % 64
              ELSE ppu'.bcps = ppu.bcps]_vars

====
